---- MODULE Spec2Model ----
(***************************************************************************)
(* Streaming Reed-Solomon (k, m) encode / decode / repair of ecstream.     *)
(*                                                                         *)
(* One DencodeContext at a time is modelled, together with its input and   *)
(* output streams, the closure of the dispatch step that is waiting for    *)
(* write callbacks, the outstanding call of the coding library and the     *)
(* queue of setImmediate callbacks.  Every action is one JavaScript        *)
(* callback run to completion (the event loop is single threaded), with    *)
(* all the synchronous calls it makes.                                     *)
(*                                                                         *)
(* Bytes are elements of a small prime field that stands for GF(2^8);      *)
(* Uninit stands for a byte of a Buffer.allocUnsafe() buffer that was      *)
(* never written: it is an arbitrary value, so no formula below treats it  *)
(* as equal to a byte of the object.                                       *)
(***************************************************************************)
EXTENDS Integers, Sequences, FiniteSets, TLC

VARIABLES
    ctx,        \* the DencodeContext of the running operation
    istreams,   \* lane -> input stream (stream.Readable)
    ostreams,   \* lane -> output stream (stream.Writable)
    disp,       \* closure of the dispatch step: nPending and awaited callbacks
    prim,       \* outstanding ReedSolomon.encode call
    immediate,  \* FIFO of setImmediate callbacks
    hist,       \* history of the operation (submissions, reads, assertions)
    env         \* the caller: original object, stored parts, phase

vars == <<ctx, istreams, ostreams, disp, prim, immediate, hist, env>>

----------------------------------------------------------------------------
(* Bounds of the model *)

\* objects of up to MaxStripes stripes are encoded
MaxStripes == 2
\* a saturating counter of read() calls
MaxReads == 1
\* bytes a producer pushes at a time
Chunk == 12

\* (k, m) pairs; the field below supports m <= 2 for k = 2
Codes == {<<2, 1>>, <<2, 2>>}
\* stripe size hints handed to encode / decode / repair
Hints == {8}
\* bytes: a prime field standing for GF(2^8)
Field == 0 .. 2
\* contents of the objects
Seeds == {0, 1}
\* errors an input stream or the coding library may report
Errors == {<<"e1">>, <<"e2">>}

\* (k, m) pairs, stripe size hints and object size of the calls whose
\* result is looked at when they return; <<0, 0>> is a call without streams
CallCodes == {<<0, 0>>, <<2, 1>>, <<4, 2>>}
CallHints == {7, 8, 12}
\* arguments of safeStripeSize called on its own
GeomParts == 1 .. 6
GeomHints ==
    {0, 1, 7, 8, 1000, 1677720, 1677721, 2097152, 2796200, 2796201,
     4194304, 8388608, 8388609}

FieldSize == Cardinality(Field)
Uninit == FieldSize
\* errors are tuples; the empty tuple is "no error yet" (inputError undefined)
NoError == <<>>

Lanes == UNION {0 .. (c[1] + c[2] - 1) : c \in Codes \cup CallCodes}

Min(a, b) == IF a < b THEN a ELSE b
Max(a, b) == IF a > b THEN a ELSE b
CeilDiv(a, b) == (a + b - 1) \div b

----------------------------------------------------------------------------
(* Bitfields (JavaScript numbers used with |, &, ~, <<) *)

HasBit(mask, i) == (mask \div (2 ^ i)) % 2 = 1

\* mask | (1 << i)
SetBit(mask, i) == IF HasBit(mask, i) THEN mask ELSE mask + 2 ^ i

BitsOf(mask) == {i \in Lanes : HasBit(mask, i)}

RECURSIVE MaskOf(_)
MaskOf(S) ==
    IF S = {} THEN 0
    ELSE LET i == CHOOSE x \in S : TRUE IN 2 ^ i + MaskOf(S \ {i})

\* a & ~b
AndNot(a, b) == MaskOf(BitsOf(a) \ BitsOf(b))

----------------------------------------------------------------------------
(* Stripe geometry *)

MAX_HWM == 8388608

\* a plausible slip: the ceiling is computed from k alone
safeStripeSizeK(k, m, hint) ==
    LET alignedHint == CeilDiv(hint, 8) * 8
        maximum == MAX_HWM \div k
        maximumAligned == (maximum \div 8) * 8
    IN Min(alignedHint, maximumAligned)

safeStripeSize(k, m, hint) ==
    LET alignedHint == CeilDiv(hint, 8) * 8
        largest == Max(k, m)
        maximum == MAX_HWM \div largest
        maximumAligned == (maximum \div 8) * 8
    IN Min(alignedHint, maximumAligned)

\* ReedSolomon.MAX_K and ReedSolomon.MAX_M of the coding library
MAX_K == 24
MAX_M == 6

\* a plausible slip: m is not looked at
getECContextAssertsK(k, m) == k > 0 /\ k <= MAX_K

\* getECContext(k, m): whether its assertions pass
getECContextAsserts(k, m) == k > 0 /\ k <= MAX_K /\ m > 0 /\ m <= MAX_M

----------------------------------------------------------------------------
(* Buffers *)

\* bytes [from, to) of a buffer (0-based, as Buffer.slice)
Slice(buf, from, to) ==
    LET t == Min(to, Len(buf))
    IN IF t <= from THEN <<>> ELSE SubSeq(buf, from + 1, t)

\* bytes.copy(buf, offset): as many bytes as fit
CopyInto(buf, offset, bytes) ==
    [p \in 1 .. Len(buf) |->
        IF p > offset /\ p <= offset + Len(bytes) THEN bytes[p - offset]
        ELSE buf[p]]

\* buf.fill(0, from)
FillZero(buf, from) ==
    [p \in 1 .. Len(buf) |-> IF p > from THEN 0 ELSE buf[p]]

\* Buffer.allocUnsafe(n)
AllocUnsafe(n) == [p \in 1 .. n |-> Uninit]

----------------------------------------------------------------------------
(* The coding library: a systematic MDS code over Field.  Parity lane j of *)
(* the data bytes d[0..k-1] is sum_i (i+1)^j * d[i]; ReedSolomon.encode     *)
(* recomputes the target lanes from the k source lanes, byte by byte.      *)

RECURSIVE Dot(_, _, _)
Dot(j, d, i) ==
    IF i < 0 THEN 0 ELSE ((i + 1) ^ j) * d[i] + Dot(j, d, i - 1)

LaneValue(k, d, lane) ==
    IF lane < k THEN d[lane] ELSE Dot(lane - k, d, k - 1) % FieldSize

\* byte p (1-based) of lane's slot in the stripe buffers
SlotByte(k, S, data, parity, lane, p) ==
    IF lane < k THEN data[lane * S + p] ELSE parity[(lane - k) * S + p]

\* the data bytes at position p that agree with every source lane
Solve(k, S, sources, data, parity, p) ==
    LET ok(d) == \A l \in BitsOf(sources) :
                    LaneValue(k, d, l) = SlotByte(k, S, data, parity, l, p)
        D == [0 .. (k - 1) -> Field]
    IN IF \E d \in D : ok(d) THEN CHOOSE d \in D : ok(d)
       ELSE [i \in 0 .. (k - 1) |-> Uninit]

RSEncode(k, m, S, sources, targets, data, parity) ==
    LET val(lane, p) ==
            IF HasBit(targets, lane)
            THEN LET d == Solve(k, S, sources, data, parity, p)
                 IN IF d[0] = Uninit THEN Uninit ELSE LaneValue(k, d, lane)
            ELSE SlotByte(k, S, data, parity, lane, p)
    IN [data |-> [q \in 1 .. (k * S) |-> val((q - 1) \div S, ((q - 1) % S) + 1)],
        parity |-> [q \in 1 .. (m * S) |->
                        val(k + (q - 1) \div S, ((q - 1) % S) + 1)]]

----------------------------------------------------------------------------
(* Streams *)

\* a stream.Readable handed to the operation
NoStream ==
    [present |-> FALSE, data |-> <<>>, pushed |-> 0, consumed |-> 0,
     ended |-> FALSE, endEmitted |-> FALSE, mode |-> "initial",
     onReadable |-> FALSE, onEnd |-> FALSE, onError |-> FALSE]

InStream(bytes) == [NoStream EXCEPT !.present = TRUE, !.data = bytes]

Buffered(s) == s.pushed - s.consumed

\* s.read(n): n bytes, or what is left once the stream has ended, or null
StreamRead(s, n) ==
    LET avail == Buffered(s)
        take == IF n <= avail THEN n ELSE IF s.ended THEN avail ELSE 0
    IN [ok |-> take > 0,
        bytes |-> SubSeq(s.data, s.consumed + 1, s.consumed + take),
        stream |-> [s EXCEPT !.consumed = s.consumed + take]]

\* s.pause()
StreamPause(s) == [s EXCEPT !.mode = "paused"]

\* s.resume(): the stream flows, what it holds is consumed and dropped
StreamResume(s) == [s EXCEPT !.mode = "flowing", !.consumed = s.pushed]

\* a stream.Writable handed to the operation
NoSink == [present |-> FALSE, received |-> <<>>, log |-> <<>>]
OutStream == [NoSink EXCEPT !.present = TRUE]

\* what an output stream sees, in order: writes (with their length), the
\* 'error' events and the 'end' events emitted on it
EvWrite(n) == <<"write", n>>
EvEnd == <<"end", 0>>
EvError(err) == <<"error", err>>
IsWrite(ev) == ev[1] = "write"
IsEnd(ev) == ev[1] = "end"
IsError(ev) == ev[1] = "error"

\* s.write(bytes)
SinkWrite(s, bytes) ==
    [s EXCEPT !.received = s.received \o bytes, !.log = Append(s.log, EvWrite(Len(bytes)))]

\* s.emit(event)
SinkEmit(s, ev) == [s EXCEPT !.log = Append(s.log, ev)]

----------------------------------------------------------------------------
(* DencodeContext.  The operators below take and return the "world" w: a  *)
(* record of the variables a callback may touch (ctx, ist, ost, disp,      *)
(* prim, imm, hist).                                                       *)

\* this._newStripe(); allocated counts the pairs of stripe buffers made
NewStripe(c) ==
    [c EXCEPT !.waiting = c.sources,
              !.allocated = @ + 1,
              !.dataBuffer = AllocUnsafe(c.stripeSize * c.k),
              !.parityBuffer = AllocUnsafe(c.stripeSize * c.m)]

\* new DencodeContext(k, m, inputStreams, outputStreams, size, sources,
\*                    targets, stripeSizeHint)
NewContext(op, k, m, size, sources, targets, stripeSizeHint) ==
    LET S == safeStripeSize(k, m, stripeSizeHint)
    IN NewStripe(
        [op |-> op, k |-> k, m |-> m, stripeSize |-> S, size |-> size,
         sources |-> sources, targets |-> targets, inFlight |-> FALSE,
         processedStripe |-> 0, nStripe |-> CeilDiv(size, k * S),
         waiting |-> 0, dataBuffer |-> <<>>, parityBuffer |-> <<>>,
         allocated |-> 0, inputError |-> NoError])

\* stripes: the stripe buffers the writes not yet completed were cut from
NoDispatch == [nPending |-> 0, wcb |-> {}, drain |-> {}, stripes |-> {}]

\* what the operation did so far: stripes handed to DencodeContext.encode,
\* read() calls (saturating), unref() calls, error() calls, failed assert()
NoHistory ==
    [submitted |-> 0, reads |-> 0, unrefs |-> 0, errors |-> 0,
     failed |-> 0, assertFailed |-> FALSE]

\* filteredOstreams.forEach(s => s.emit(ev))
EmitAll(ost, ev) ==
    [i \in DOMAIN ost |-> IF ost[i].present THEN SinkEmit(ost[i], ev) ELSE ost[i]]

\* a plausible slip: every error is recorded and broadcast
CtxErrorAlways(w, err) ==
    [w EXCEPT !.ctx.inputError = err, !.ost = EmitAll(w.ost, EvError(err)),
              !.hist.errors = @ + 1]

\* DencodeContext.error(err)
CtxError(w, err) ==
    IF w.ctx.inputError = NoError
    THEN [w EXCEPT !.ctx.inputError = err, !.ost = EmitAll(w.ost, EvError(err)),
                   !.hist.errors = @ + 1]
    ELSE [w EXCEPT !.hist.errors = @ + 1]

\* a plausible slip: the stripe is checked but the flag is not set
RefNoFlag(w) ==
    [w EXCEPT !.hist.assertFailed = @ \/ w.ctx.waiting # 0]

\* DencodeContext.ref()
Ref(w) ==
    [w EXCEPT !.ctx.inFlight = TRUE,
              !.hist.assertFailed = @ \/ w.ctx.waiting # 0]

\* a plausible slip: the lanes filled are not taken off waiting
AddedToStripeNone(w, mask) == w

\* a plausible slip: one lane filled counts for all
AddedToStripeAll(w, mask) == [w EXCEPT !.ctx.waiting = 0]

\* DencodeContext.addedToStripe(sources)
AddedToStripe(w, mask) == [w EXCEPT !.ctx.waiting = AndNot(@, mask)]

\* a plausible slip: with nothing to compute the stripe is completed inside
\* the call
CtxEncodeSync(w) ==
    LET w1 == [w EXCEPT !.hist.assertFailed = @ \/ ~w.ctx.inFlight,
                        !.hist.submitted = @ + 1]
    IN IF w.ctx.targets = 0
       THEN [w1 EXCEPT !.ctx.inFlight = FALSE,
                       !.ctx.processedStripe = @ + 1,
                       !.hist.unrefs = @ + 1]
       ELSE [w1 EXCEPT !.prim = "running"]

\* DencodeContext.encode(dispatcher): hand the stripe to the coding library,
\* or to a setImmediate callback when there is nothing to compute
CtxEncode(w) ==
    LET w1 == [w EXCEPT !.hist.assertFailed = @ \/ ~w.ctx.inFlight,
                        !.hist.submitted = @ + 1]
    IN IF w.ctx.targets = 0
       THEN [w1 EXCEPT !.imm = Append(@, <<"dispatch">>)]
       ELSE [w1 EXCEPT !.prim = "running"]

\* istreams[istreamId].read(n), counted
ReadLane(w, i, n) ==
    LET r == StreamRead(w.ist[i], n)
    IN [ok |-> r.ok, bytes |-> r.bytes,
        w |-> [w EXCEPT !.ist[i] = r.stream,
                        !.hist.reads = Min(@ + 1, MaxReads)]]

\* a plausible slip: every lane copied at its overall index
FillOffsetOverall(c, i) == i * c.stripeSize

\* fillStripeBuffers: where the bytes of lane i go in their buffer
FillOffset(c, i) ==
    IF i < c.k THEN i * c.stripeSize ELSE (i - c.k) * c.stripeSize

\* fillStripeBuffers(decodeContext, istreamId) followed by the rest of
\* decodeBufferStep(decodeContext, istreamId, nextStep)
DecodeBufferStep(w, i) ==
    IF w.ctx.inFlight THEN w
    ELSE IF ~HasBit(w.ctx.waiting, i) THEN w
    ELSE
      LET S == w.ctx.stripeSize
          r == ReadLane(w, i, S)
          toData == i < w.ctx.k
          offset == FillOffset(w.ctx, i)
          buf == IF toData THEN w.ctx.dataBuffer ELSE w.ctx.parityBuffer
          copied == Min(Len(r.bytes), Len(buf) - offset)
          w1 == [r.w EXCEPT
                   !.ctx.dataBuffer =
                       IF toData THEN CopyInto(@, offset, r.bytes) ELSE @,
                   !.ctx.parityBuffer =
                       IF toData THEN @ ELSE CopyInto(@, offset, r.bytes),
                   !.hist.assertFailed = @ \/ copied # Len(r.bytes)]
          w2 == AddedToStripe(w1, 2 ^ i)
      IN IF ~r.ok THEN r.w
         ELSE IF w2.ctx.waiting = 0 THEN CtxEncode(Ref(w2))
         ELSE w2

\* a plausible slip: the input is read while a stripe is in flight
EncodeBufferStepNoFlight(w, i) ==
    LET c == w.ctx
        dataSize == c.stripeSize * c.k
        toRead == IF c.processedStripe + 1 = c.nStripe
                  THEN c.size - c.processedStripe * dataSize
                  ELSE dataSize
        r == ReadLane(w, i, toRead)
        filled == IF Len(r.bytes) < dataSize
                  THEN FillZero(CopyInto(c.dataBuffer, 0, r.bytes),
                                Len(r.bytes))
                  ELSE r.bytes
        w1 == [r.w EXCEPT !.ctx.dataBuffer = filled]
    IN IF ~r.ok THEN r.w
       ELSE CtxEncode(Ref(AddedToStripe(w1, c.sources)))

\* a plausible slip: the end of a short last stripe is left as allocated
EncodeBufferStepNoPad(w, i) ==
    IF w.ctx.inFlight THEN w
    ELSE
      LET c == w.ctx
          dataSize == c.stripeSize * c.k
          toRead == IF c.processedStripe + 1 = c.nStripe
                    THEN c.size - c.processedStripe * dataSize
                    ELSE dataSize
          r == ReadLane(w, i, toRead)
          w1 == [r.w EXCEPT !.ctx.dataBuffer = CopyInto(c.dataBuffer, 0, r.bytes)]
      IN IF ~r.ok THEN r.w
         ELSE CtxEncode(Ref(AddedToStripe(w1, c.sources)))

\* encodeBufferStep(encodeContext, istreamId)
EncodeBufferStep(w, i) ==
    IF w.ctx.inFlight THEN w
    ELSE
      LET c == w.ctx
          dataSize == c.stripeSize * c.k
          lastStripe == c.processedStripe + 1 = c.nStripe
          toRead == IF lastStripe
                    THEN c.size - c.processedStripe * dataSize
                    ELSE dataSize
          r == ReadLane(w, i, toRead)
          filled == IF Len(r.bytes) < dataSize
                    THEN FillZero(CopyInto(c.dataBuffer, 0, r.bytes),
                                  Len(r.bytes))
                    ELSE r.bytes
          w1 == [r.w EXCEPT !.ctx.dataBuffer = filled]
      IN IF ~r.ok THEN r.w
         ELSE CtxEncode(Ref(AddedToStripe(w1, c.sources)))

\* the 'readable' listener the operation attached to input lane i
ReadableHandler(w, i) ==
    IF ~w.ist[i].onReadable THEN w
    ELSE IF w.ctx.op = "encode" THEN EncodeBufferStep(w, i)
    ELSE DecodeBufferStep(w, i)

\* filteredIstreams.forEach(s => s.emit('readable'))
RECURSIVE Wake(_, _)
Wake(w, i) ==
    IF i \notin DOMAIN w.ist THEN w
    ELSE Wake(IF w.ist[i].present THEN ReadableHandler(w, i) ELSE w, i + 1)

\* a plausible slip: the end is signalled one stripe early
UnrefEarlyEnd(w) ==
    LET w1 == [w EXCEPT !.ctx.inFlight = FALSE,
                        !.ctx.processedStripe = @ + 1,
                        !.hist.unrefs = @ + 1]
    IN IF w1.ctx.processedStripe + 1 >= w1.ctx.nStripe
       THEN [w1 EXCEPT !.ost = EmitAll(@, EvEnd)]
       ELSE Wake([w1 EXCEPT !.ctx = NewStripe(@)], 0)

\* a plausible slip: the inputs are not woken after a stripe
UnrefNoWake(w) ==
    LET w1 == [w EXCEPT !.ctx.inFlight = FALSE,
                        !.ctx.processedStripe = @ + 1,
                        !.hist.unrefs = @ + 1]
    IN IF w1.ctx.processedStripe = w1.ctx.nStripe
       THEN [w1 EXCEPT !.ost = EmitAll(@, EvEnd)]
       ELSE [w1 EXCEPT !.ctx = NewStripe(@)]

\* DencodeContext.unref()
Unref(w) ==
    LET w1 == [w EXCEPT !.ctx.inFlight = FALSE,
                        !.ctx.processedStripe = @ + 1,
                        !.hist.unrefs = @ + 1]
    IN IF w1.ctx.processedStripe = w1.ctx.nStripe
       THEN [w1 EXCEPT !.ost = EmitAll(@, EvEnd)]
       ELSE Wake([w1 EXCEPT !.ctx = NewStripe(@)], 0)

----------------------------------------------------------------------------
(* Step 3: dispatch of a coded stripe to the output streams.  full is the  *)
(* set of lanes whose write() returns false (a 'drain' is then awaited).   *)

\* s.write(slices[i], null, callback) on every lane of the set, and the
\* closure left behind: nPending, the write callbacks, the 'drain' listeners
WriteSlices(w, lanes, full, slices, nPending) ==
    [w EXCEPT
        !.ost = [i \in DOMAIN @ |->
                    IF i \in lanes THEN SinkWrite(@[i], slices[i]) ELSE @[i]],
        !.disp = [nPending |-> nPending, wcb |-> lanes,
                  drain |-> full \cap lanes,
                  stripes |-> IF lanes = {} THEN w.disp.stripes
                              ELSE w.disp.stripes \cup {w.ctx.allocated}]]

\* a plausible slip: every lane is sent the first part of its buffer
LaneSliceFirst(c, i) ==
    LET buffer == IF i < c.k THEN c.dataBuffer ELSE c.parityBuffer
    IN Slice(buffer, 0, c.stripeSize)

\* the [stripeId * S, (stripeId + 1) * S[ part of the data or parity buffer
LaneSlice(c, i) ==
    LET buffer == IF i < c.k THEN c.dataBuffer ELSE c.parityBuffer
        stripeId == IF i < c.k THEN i ELSE i - c.k
    IN Slice(buffer, stripeId * c.stripeSize, (stripeId + 1) * c.stripeSize)

\* a plausible slip: a write that returned false is not waited for
EncodeDispatchStepNoDrain(w, error, full) ==
    IF error # NoError THEN Unref(CtxError(w, error))
    ELSE LET lanes == DOMAIN w.ost
         IN WriteSlices(w, lanes, full, [i \in lanes |-> LaneSlice(w.ctx, i)],
                Cardinality(lanes))

\* encodeDispatchStep(encodeContext, error): nPending starts at
\* ostreams.length, +1 per write, -1 per write that returned true
EncodeDispatchStep(w, error, full) ==
    IF error # NoError THEN Unref(CtxError(w, error))
    ELSE LET lanes == DOMAIN w.ost
         IN WriteSlices(w, lanes, full, [i \in lanes |-> LaneSlice(w.ctx, i)],
                Cardinality(lanes) + Cardinality(lanes)
                    - Cardinality(lanes \ full))

\* a plausible slip: the last stripe is pushed whole
DecodeToPushWhole(c) == c.dataBuffer

\* what decodeDispatchStep pushes: the data buffer, cut on the last stripe
DecodeToPush(c) ==
    IF c.processedStripe + 1 = c.nStripe
    THEN LET pushedBytes == c.processedStripe * c.stripeSize * c.k
             leftover == c.size - pushedBytes
         IN Slice(c.dataBuffer, 0, leftover)
    ELSE c.dataBuffer

\* decodeDispatchStep(decodeContext, error): nPending starts at
\* filteredOstreams.length, +1 per write, -1 per write that returned true
DecodeDispatchStep(w, error, full) ==
    IF error # NoError THEN Unref(CtxError(w, error))
    ELSE LET lanes == {i \in DOMAIN w.ost : w.ost[i].present}
         IN WriteSlices(w, lanes, full, [i \in lanes |-> DecodeToPush(w.ctx)],
                Cardinality(lanes) + Cardinality(lanes)
                    - Cardinality(lanes \ full))

\* a plausible slip: every lane is cut out of the data buffer
RepairDispatchStepData(w, error, full) ==
    IF error # NoError THEN Unref(CtxError(w, error))
    ELSE LET lanes == {i \in DOMAIN w.ost : HasBit(w.ctx.targets, i)}
             S == w.ctx.stripeSize
         IN WriteSlices(w, lanes, full,
                [i \in lanes |->
                    Slice(w.ctx.dataBuffer, (i % w.ctx.k) * S,
                          ((i % w.ctx.k) + 1) * S)],
                1 + 2 * Cardinality(lanes) - Cardinality(lanes \ full) - 1)

\* a plausible slip: the last stripe is cut to the size of the object, as
\* decode does
RepairDispatchStepCut(w, error, full) ==
    IF error # NoError THEN Unref(CtxError(w, error))
    ELSE LET lanes == {i \in DOMAIN w.ost : HasBit(w.ctx.targets, i)}
             c == w.ctx
             leftover == c.size - c.processedStripe * c.stripeSize * c.k
             cut(b) == IF c.processedStripe + 1 = c.nStripe
                       THEN Slice(b, 0, Min(Len(b), leftover))
                       ELSE b
         IN WriteSlices(w, lanes, full,
                [i \in lanes |-> cut(LaneSlice(w.ctx, i))],
                1 + 2 * Cardinality(lanes) - Cardinality(lanes \ full) - 1)

\* repairDispatchStep(repairContext, error): nPending starts at 1, +2 per
\* target written, -1 per write that returned true, -1 after the loop
RepairDispatchStep(w, error, full) ==
    IF error # NoError THEN Unref(CtxError(w, error))
    ELSE LET lanes == {i \in DOMAIN w.ost : HasBit(w.ctx.targets, i)}
         IN WriteSlices(w, lanes, full, [i \in lanes |-> LaneSlice(w.ctx, i)],
                1 + 2 * Cardinality(lanes) - Cardinality(lanes \ full) - 1)

\* the dispatcher handed to DencodeContext.encode
Dispatch(w, error, full) ==
    CASE w.ctx.op = "encode" -> EncodeDispatchStep(w, error, full)
      [] w.ctx.op = "decode" -> DecodeDispatchStep(w, error, full)
      [] OTHER -> RepairDispatchStep(w, error, full)

\* a plausible slip: the first callback already reports the stripe
WriteDoneFirst(w) ==
    LET w1 == [w EXCEPT !.disp.nPending = @ - 1,
                        !.disp.stripes =
                            IF w.disp.wcb \cup w.disp.drain = {} THEN {} ELSE @]
    IN IF w.ctx.op = "repair" THEN [w1 EXCEPT !.imm = Append(@, <<"unref">>)]
       ELSE Unref(w1)

\* the write callback / 'drain' listener of the dispatch step: the last one
\* reports the stripe (directly, or through setImmediate in repair)
WriteDone(w) ==
    LET w1 == [w EXCEPT !.disp.nPending = @ - 1,
                        !.disp.stripes =
                            IF w.disp.wcb \cup w.disp.drain = {} THEN {} ELSE @]
    IN IF w1.disp.nPending # 0 THEN w1
       ELSE IF w.ctx.op = "repair" THEN [w1 EXCEPT !.imm = Append(@, <<"unref">>)]
       ELSE Unref(w1)

----------------------------------------------------------------------------
(* The three operations.  Each returns the world left when the call        *)
(* returns: the context, the listeners attached, the streams paused or     *)
(* resumed.                                                                *)

NewWorld(c, ist, ost) ==
    [ctx |-> c, ist |-> ist, ost |-> ost, disp |-> NoDispatch,
     prim |-> "idle", imm |-> <<>>, hist |-> NoHistory]

ErrNotEnoughParts(available, k) == <<"Not enough parts for decoding", available, k>>

\* encode(instream, size, dataOutStreams, parityOutStreams, stripeSize)
Encode(input, size, k, m, stripeSize) ==
    LET sources == 2 ^ k - 1
        targets == (2 ^ m - 1) * 2 ^ k
        c == NewContext("encode", k, m, size, sources, targets, stripeSize)
        instream == [StreamPause(InStream(input)) EXCEPT
                        !.onReadable = TRUE, !.onEnd = TRUE, !.onError = TRUE]
    IN NewWorld(c, [i \in {0} |-> instream],
                [i \in 0 .. (k + m - 1) |-> OutStream])

\* getPartRoles(dataStreams, parityStreams) of decode: the loop over the
\* data streams from index i, with its break
RECURSIVE DecodeDataRoles(_, _, _, _)
DecodeDataRoles(ist, k, i, r) ==
    IF i >= k THEN r
    ELSE IF ist[i].present
    THEN LET r1 == [r EXCEPT !.sources = SetBit(@, i), !.available = @ + 1]
         IN IF r1.available = k THEN r1 ELSE DecodeDataRoles(ist, k, i + 1, r1)
    ELSE DecodeDataRoles(ist, k, i + 1, [r EXCEPT !.targets = SetBit(@, i)])

\* a plausible slip: the loop over the parity streams has no break
RECURSIVE DecodeParityRolesNoBreak(_, _, _, _, _)
DecodeParityRolesNoBreak(ist, k, m, i, r) ==
    IF i >= m THEN r
    ELSE IF ist[k + i].present
    THEN DecodeParityRolesNoBreak(ist, k, m, i + 1,
             [r EXCEPT !.sources = SetBit(@, k + i), !.available = @ + 1])
    ELSE DecodeParityRolesNoBreak(ist, k, m, i + 1, r)

\* ... and the loop over the parity streams
RECURSIVE DecodeParityRoles(_, _, _, _, _)
DecodeParityRoles(ist, k, m, i, r) ==
    IF i >= m THEN r
    ELSE IF ist[k + i].present
    THEN LET r1 == [r EXCEPT !.sources = SetBit(@, k + i), !.available = @ + 1]
         IN IF r1.available = k THEN r1
            ELSE DecodeParityRoles(ist, k, m, i + 1, r1)
    ELSE DecodeParityRoles(ist, k, m, i + 1, r)

\* a plausible slip: the parity streams are scanned in any case
getPartRolesAlwaysParity(ist, k, m) ==
    DecodeParityRoles(ist, k, m, 0,
        DecodeDataRoles(ist, k, 0,
                        [sources |-> 0, targets |-> 0, available |-> 0]))

\* getPartRoles(dataStreams, parityStreams) of decode
getPartRoles(ist, k, m) ==
    LET r == DecodeDataRoles(ist, k, 0,
                             [sources |-> 0, targets |-> 0, available |-> 0])
    IN IF r.available < k THEN DecodeParityRoles(ist, k, m, 0, r) ELSE r

\* a plausible slip: the loop over the inputs has no break
RECURSIVE RepairSourceRolesNoBreak(_, _, _, _)
RepairSourceRolesNoBreak(ist, n, i, r) ==
    IF i >= n THEN r
    ELSE IF ist[i].present
    THEN RepairSourceRolesNoBreak(ist, n, i + 1,
             [r EXCEPT !.sources = SetBit(@, i), !.available = @ + 1])
    ELSE RepairSourceRolesNoBreak(ist, n, i + 1, r)

\* getPartRoles(k, m, istreams, ostreams) of repair: the loop over the inputs
RECURSIVE RepairSourceRoles(_, _, _, _)
RepairSourceRoles(ist, n, i, r) ==
    IF i >= n THEN r
    ELSE IF ist[i].present
    THEN IF r.available = r.k THEN r
         ELSE RepairSourceRoles(ist, n, i + 1,
                  [r EXCEPT !.sources = SetBit(@, i), !.available = @ + 1])
    ELSE RepairSourceRoles(ist, n, i + 1, r)

\* getPartRoles(k, m, istreams, ostreams) of repair
repairGetPartRoles(k, m, ist, ost) ==
    LET r == RepairSourceRoles(ist, k + m, 0,
                 [sources |-> 0, targets |-> 0, available |-> 0, k |-> k])
    IN [sources |-> r.sources,
        targets |-> MaskOf({i \in 0 .. (k + m - 1) : ost[i].present}),
        available |-> r.available]

\* a plausible slip: the lanes that are not sources are left alone
AttachInputsNoResume(ist, sources) ==
    [i \in DOMAIN ist |->
        IF ~HasBit(sources, i) THEN ist[i]
        ELSE [StreamPause(ist[i]) EXCEPT !.onError = TRUE, !.onReadable = TRUE]]

\* istreams.forEach((s, i) => ...) of decode: lanes that are not sources are
\* resumed, sources are paused and given their listeners
AttachInputs(ist, sources) ==
    [i \in DOMAIN ist |->
        IF ~HasBit(sources, i)
        THEN IF ist[i].present THEN StreamResume(ist[i]) ELSE ist[i]
        ELSE [StreamPause(ist[i]) EXCEPT !.onError = TRUE, !.onReadable = TRUE]]

\* a plausible slip: the inputs are attached even when parts are missing
DecodeNoEarlyReturn(ist, size, k, m, stripeSize) ==
    LET roles == getPartRoles(ist, k, m)
        c == NewContext("decode", k, m, size, roles.sources, roles.targets,
                        stripeSize)
        w == NewWorld(c, ist, [i \in {0} |-> OutStream])
        w1 == IF roles.available < k
              THEN CtxError(w, ErrNotEnoughParts(roles.available, k))
              ELSE w
    IN [w1 EXCEPT !.ist = AttachInputs(ist, roles.sources)]

\* decode(ostream, size, dataStreams, parityStreams, stripeSize);
\* ist holds the data streams followed by the parity streams
Decode(ist, size, k, m, stripeSize) ==
    LET roles == getPartRoles(ist, k, m)
        c == NewContext("decode", k, m, size, roles.sources, roles.targets,
                        stripeSize)
        w == NewWorld(c, ist, [i \in {0} |-> OutStream])
    IN IF roles.available < k
       THEN CtxError(w, ErrNotEnoughParts(roles.available, k))
       ELSE [w EXCEPT !.ist = AttachInputs(ist, roles.sources)]

\* repair(k, m, istreams, ostreams, size, stripeSize)
Repair(k, m, ist, ost, size, stripeSize) ==
    LET roles == repairGetPartRoles(k, m, ist, ost)
        c == NewContext("repair", k, m, size, roles.sources, roles.targets,
                        stripeSize)
        w == NewWorld(c, ist, ost)
    IN IF roles.available < k
       THEN CtxError(w, ErrNotEnoughParts(roles.available, k))
       ELSE [w EXCEPT !.ist = AttachInputs(ist, roles.sources)]

----------------------------------------------------------------------------
(* State and actions *)

World ==
    [ctx |-> ctx, ist |-> istreams, ost |-> ostreams, disp |-> disp,
     prim |-> prim, imm |-> immediate, hist |-> hist]

Commit(w) ==
    /\ ctx' = w.ctx
    /\ istreams' = w.ist
    /\ ostreams' = w.ost
    /\ disp' = w.disp
    /\ prim' = w.prim
    /\ immediate' = w.imm
    /\ hist' = w.hist

\* the bytes of the object: byte p of the object of a given seed
ObjectByte(seed, p) == (p + (p \div 4) + seed) % FieldSize
Object(seed, size) == [p \in 1 .. size |-> ObjectByte(seed, p)]

\* sizes of up to MaxStripes stripes: one byte, one lane and a byte, or a
\* whole stripe in the last stripe
Sizes(k, S) ==
    {(n - 1) * k * S + r : n \in 1 .. MaxStripes, r \in {1, S + 1, k * S}}

\* the producer of input lane i pushes its next chunk
Push(i) ==
    /\ i \in DOMAIN istreams
    /\ istreams[i].present
    /\ ~istreams[i].ended
    /\ istreams[i].pushed < Len(istreams[i].data)
    /\ LET s == istreams[i]
           n == Min(s.pushed + Chunk, Len(s.data))
       IN istreams' = [istreams EXCEPT ![i] =
              [s EXCEPT !.pushed = n,
                        !.consumed = IF s.mode = "flowing" THEN n ELSE @]]
    /\ UNCHANGED <<ctx, ostreams, disp, prim, immediate, hist, env>>

\* the producer of input lane i ends it (push(null))
EndOfInput(i) ==
    /\ i \in DOMAIN istreams
    /\ istreams[i].present
    /\ ~istreams[i].ended
    /\ istreams[i].pushed = Len(istreams[i].data)
    /\ istreams' = [istreams EXCEPT ![i].ended = TRUE]
    /\ UNCHANGED <<ctx, ostreams, disp, prim, immediate, hist, env>>

\* input lane i emits 'readable'
Readable(i) ==
    /\ i \in DOMAIN istreams
    /\ istreams[i].present
    /\ istreams[i].onReadable
    /\ Buffered(istreams[i]) > 0 \/ istreams[i].ended
    /\ Commit(ReadableHandler(World, i))
    /\ UNCHANGED env

\* input lane i emits 'end' (encode listens to it)
EndEvent(i) ==
    /\ i \in DOMAIN istreams
    /\ istreams[i].present
    /\ istreams[i].onEnd
    /\ istreams[i].ended
    /\ Buffered(istreams[i]) = 0
    /\ ~istreams[i].endEmitted
    /\ Commit(EncodeBufferStep(
           [World EXCEPT !.ist[i].endEmitted = TRUE], i))
    /\ UNCHANGED env

\* lanes the pending stripe will be written to
WriteLanes ==
    IF ctx.op = "repair" THEN {i \in DOMAIN ostreams : HasBit(ctx.targets, i)}
    ELSE {i \in DOMAIN ostreams : ostreams[i].present}

\* the coding library calls back without error: the targets are computed
PrimDone ==
    /\ prim = "running"
    /\ \E full \in SUBSET WriteLanes :
         LET coded == RSEncode(ctx.k, ctx.m, ctx.stripeSize, ctx.sources,
                               ctx.targets, ctx.dataBuffer, ctx.parityBuffer)
             w == [World EXCEPT !.prim = "idle",
                                !.ctx.dataBuffer = coded.data,
                                !.ctx.parityBuffer = coded.parity]
         IN Commit(Dispatch(w, NoError, full))
    /\ UNCHANGED env

\* the oldest setImmediate callback runs
RunImmediate ==
    /\ immediate # <<>>
    /\ LET cb == Head(immediate)
           w == [World EXCEPT !.imm = Tail(@)]
       IN CASE cb[1] = "dispatch" ->
                 \E full \in SUBSET WriteLanes : Commit(Dispatch(w, NoError, full))
            [] cb[1] = "unref" -> Commit(Unref(w))
            [] OTHER -> Commit(CtxError(w, cb[2]))
    /\ UNCHANGED env

\* the callback of the write on output lane i runs
WriteCallback(i) ==
    /\ i \in disp.wcb
    /\ Commit(WriteDone([World EXCEPT !.disp.wcb = @ \ {i}]))
    /\ UNCHANGED env

\* output lane i emits 'drain'
Drain(i) ==
    /\ i \in disp.drain
    /\ Commit(WriteDone([World EXCEPT !.disp.drain = @ \ {i}]))
    /\ UNCHANGED env

\* input lane i emits 'error': the listener attached with once() runs; in
\* repair it defers the report with setImmediate
InputError(i, err) ==
    /\ i \in DOMAIN istreams
    /\ istreams[i].present
    /\ istreams[i].onError
    /\ LET w == [World EXCEPT !.ist[i].onError = FALSE]
       IN IF ctx.op = "repair"
          THEN Commit([w EXCEPT !.imm = Append(@, <<"error", err>>)])
          ELSE Commit(CtxError(w, err))
    /\ UNCHANGED env

\* the coding library calls back with an error
PrimFail(err) ==
    /\ prim = "running"
    /\ Commit(Dispatch([World EXCEPT !.prim = "idle", !.hist.failed = @ + 1],
                       err, {}))
    /\ UNCHANGED env

----------------------------------------------------------------------------
(* What encode makes of an object: the object padded with zeros to whole   *)
(* stripes, data lane i holding part i of every stripe and parity lane j   *)
(* the parity of the k data parts.                                         *)

PaddedByte(X, p) == IF p <= Len(X) THEN X[p] ELSE 0

ExpectedPart(X, k, S, lane) ==
    LET nStripe == CeilDiv(Len(X), k * S)
        byte(n, i, q) == PaddedByte(X, n * k * S + i * S + q)
    IN [p \in 1 .. (nStripe * S) |->
          LET n == (p - 1) \div S
              q == ((p - 1) % S) + 1
              d == [i \in 0 .. (k - 1) |-> byte(n, i, q)]
          IN LaneValue(k, d, lane)]

----------------------------------------------------------------------------
(* Round trip: an object is encoded, its parts are kept, and the parts --  *)
(* but for up to m of them -- are handed to decode.                        *)

Finished == \A i \in DOMAIN ostreams :
                ostreams[i].present =>
                    \E j \in DOMAIN ostreams[i].log : IsEnd(ostreams[i].log[j])

\* encode is called on an object of one of the seeds
InitEncode(seeds) ==
    \E code \in Codes, hint \in Hints, seed \in seeds :
      \E size \in Sizes(code[1], safeStripeSize(code[1], code[2], hint)) :
        LET w == Encode(Object(seed, size), size, code[1], code[2], hint)
        IN /\ ctx = w.ctx
           /\ istreams = w.ist
           /\ ostreams = w.ost
           /\ disp = w.disp
           /\ prim = w.prim
           /\ immediate = w.imm
           /\ hist = w.hist
           /\ env = [phase |-> "encode", X |-> Object(seed, size),
                     k |-> code[1], m |-> code[2], hint |-> hint,
                     size |-> size, kill |-> {}, parts |-> <<>>,
                     present |-> {0}]

\* the caller keeps what the outputs of the finished operation received
\* and decodes from all lanes but those of kill
StartDecode(kill) ==
    /\ env.phase = "encode"
    /\ Finished
    /\ kill \subseteq DOMAIN ostreams
    /\ Cardinality(kill) <= env.m
    /\ LET ist == [i \in 0 .. (env.k + env.m - 1) |->
                      IF i \in kill THEN NoStream
                      ELSE InStream(ostreams[i].received)]
       IN Commit(Decode(ist, env.size, env.k, env.m, env.hint))
    /\ env' = [env EXCEPT !.phase = "decode", !.kill = kill,
                          !.present = DOMAIN ostreams \ kill,
                          !.parts = [i \in DOMAIN ostreams |->
                                        ostreams[i].received]]

Init == InitEncode(Seeds)

Next ==
    \/ \E i \in Lanes : Push(i)
    \/ \E i \in Lanes : EndOfInput(i)
    \/ \E i \in Lanes : Readable(i)
    \/ \E i \in Lanes : EndEvent(i)
    \/ PrimDone
    \/ RunImmediate
    \/ \E i \in Lanes : WriteCallback(i)
    \/ \E i \in Lanes : Drain(i)
    \/ \E kill \in SUBSET Lanes : StartDecode(kill)

Spec == Init /\ [][Next]_vars

----------------------------------------------------------------------------
(* Repair: an object is encoded, up to m of its parts are lost and rebuilt *)
(* by repair, and the object is decoded from the rebuilt parts and others. *)

\* the caller lost the parts of missing and asks repair for each of them
StartRepair(missing) ==
    /\ env.phase = "encode"
    /\ Finished
    /\ missing # {}
    /\ missing \subseteq DOMAIN ostreams
    /\ Cardinality(missing) <= env.m
    /\ LET ist == [i \in DOMAIN ostreams |->
                      IF i \in missing THEN NoStream
                      ELSE InStream(ostreams[i].received)]
           ost == [i \in DOMAIN ostreams |->
                      IF i \in missing THEN OutStream ELSE NoSink]
       IN Commit(Repair(env.k, env.m, ist, ost, env.size, env.hint))
    /\ env' = [env EXCEPT !.phase = "repair", !.kill = missing,
                          !.present = DOMAIN ostreams \ missing,
                          !.parts = [i \in DOMAIN ostreams |->
                                        ostreams[i].received]]

\* the caller decodes from the rebuilt parts and from other parts, all
\* lanes but those of kill
StartDecodeRepaired(kill) ==
    /\ env.phase = "repair"
    /\ Finished
    /\ kill \subseteq DOMAIN ostreams
    /\ kill \cap env.kill = {}
    /\ Cardinality(kill) <= env.m
    /\ LET ist == [i \in DOMAIN ostreams |->
                      IF i \in kill THEN NoStream
                      ELSE IF i \in env.kill THEN InStream(ostreams[i].received)
                      ELSE InStream(env.parts[i])]
       IN Commit(Decode(ist, env.size, env.k, env.m, env.hint))
    /\ env' = [env EXCEPT !.phase = "decode",
                          !.present = DOMAIN ostreams \ kill]

NextRepair ==
    \/ \E i \in Lanes : Push(i)
    \/ \E i \in Lanes : EndOfInput(i)
    \/ \E i \in Lanes : Readable(i)
    \/ \E i \in Lanes : EndEvent(i)
    \/ PrimDone
    \/ RunImmediate
    \/ \E i \in Lanes : WriteCallback(i)
    \/ \E i \in Lanes : Drain(i)
    \/ \E missing \in SUBSET Lanes : StartRepair(missing)
    \/ \E kill \in SUBSET Lanes : StartDecodeRepaired(kill)

InitRepair == InitEncode({0})

SpecRepair == InitRepair /\ [][NextRepair]_vars

----------------------------------------------------------------------------
(* Faults: one operation -- encode, or decode / repair over any subset of  *)
(* the parts of an object -- whose inputs and coding library may fail.     *)

FaultCodes == {<<2, 1>>}
FaultSizes(k, S) == {k * S + 1}

InitFault ==
    \E code \in FaultCodes, hint \in Hints :
      LET k == code[1]
          m == code[2]
          S == safeStripeSize(k, m, hint)
      IN \E size \in FaultSizes(k, S), op \in {"encode", "decode", "repair"},
            present \in SUBSET (0 .. (k + m - 1)) :
           LET X == Object(0, size)
               ist == [i \in 0 .. (k + m - 1) |->
                          IF i \in present
                          THEN InStream(ExpectedPart(X, k, S, i))
                          ELSE NoStream]
               ost == [i \in 0 .. (k + m - 1) |->
                          IF i \in present THEN NoSink ELSE OutStream]
               w == CASE op = "encode" -> Encode(X, size, k, m, hint)
                      [] op = "decode" -> Decode(ist, size, k, m, hint)
                      [] OTHER -> Repair(k, m, ist, ost, size, hint)
           IN /\ op = "encode" => present = {0}
              /\ ctx = w.ctx
              /\ istreams = w.ist
              /\ ostreams = w.ost
              /\ disp = w.disp
              /\ prim = w.prim
              /\ immediate = w.imm
              /\ hist = w.hist
              /\ env = [phase |-> op, X |-> X, k |-> k, m |-> m,
                        hint |-> hint, size |-> size, kill |-> {},
                        parts |-> <<>>, present |-> present]

NextFault ==
    \/ \E i \in Lanes : Push(i)
    \/ \E i \in Lanes : EndOfInput(i)
    \/ \E i \in Lanes : Readable(i)
    \/ \E i \in Lanes : EndEvent(i)
    \/ PrimDone
    \/ RunImmediate
    \/ \E i \in Lanes : WriteCallback(i)
    \/ \E i \in Lanes : Drain(i)
    \/ \E i \in Lanes, err \in Errors : InputError(i, err)
    \/ \E err \in Errors : PrimFail(err)

SpecFault == InitFault /\ [][NextFault]_vars

----------------------------------------------------------------------------
(* Progress: one operation over an empty object or an object of three      *)
(* stripes, whose producers deliver every byte and the end of their        *)
(* stream, whose coding library calls back and whose outputs complete      *)
(* their writes and drain.  An enabled callback of the event loop runs.    *)

FairSizes(k, S) == {0, 2 * k * S + 1}

\* the world when the call of op returns
InitOperation(op, k, m, hint, size, present) ==
    LET S == safeStripeSize(k, m, hint)
        X == Object(0, size)
        ist == [i \in 0 .. (k + m - 1) |->
                   IF i \in present THEN InStream(ExpectedPart(X, k, S, i))
                   ELSE NoStream]
        ost == [i \in 0 .. (k + m - 1) |->
                   IF i \in present THEN NoSink ELSE OutStream]
        w == CASE op = "encode" -> Encode(X, size, k, m, hint)
               [] op = "decode" -> Decode(ist, size, k, m, hint)
               [] OTHER -> Repair(k, m, ist, ost, size, hint)
    IN /\ ctx = w.ctx
       /\ istreams = w.ist
       /\ ostreams = w.ost
       /\ disp = w.disp
       /\ prim = w.prim
       /\ immediate = w.imm
       /\ hist = w.hist
       /\ env = [phase |-> op, X |-> X, k |-> k, m |-> m, hint |-> hint,
                 size |-> size, kill |-> {}, parts |-> <<>>,
                 present |-> present]

InitFair ==
    \E code \in FaultCodes, hint \in Hints,
       op \in {"encode", "decode", "repair"} :
      \E size \in FairSizes(code[1], safeStripeSize(code[1], code[2], hint)),
         present \in SUBSET (0 .. (code[1] + code[2] - 1)) :
        /\ IF op = "encode" THEN present = {0}
           ELSE Cardinality(present) >= code[1]
        /\ InitOperation(op, code[1], code[2], hint, size, present)

NextFair ==
    \/ \E i \in Lanes : Push(i)
    \/ \E i \in Lanes : EndOfInput(i)
    \/ \E i \in Lanes : Readable(i)
    \/ \E i \in Lanes : EndEvent(i)
    \/ PrimDone
    \/ RunImmediate
    \/ \E i \in Lanes : WriteCallback(i)
    \/ \E i \in Lanes : Drain(i)

\* the event loop runs a callback whenever one is pending: a producer's
\* push or end, a 'readable' or 'end' listener that has something to read,
\* the callback of the coding library, a setImmediate callback, a write
\* callback or a 'drain' listener
Fairness == WF_vars(NextFair)

SpecFair == InitFair /\ [][NextFair]_vars /\ Fairness

----------------------------------------------------------------------------
(* Calls: encode, decode, repair and safeStripeSize are called with any    *)
(* pattern of present inputs and requested outputs; the state is looked at *)
(* when the call returns or throws.                                        *)

\* no operation yet
NoContext ==
    [op |-> "none", k |-> 0, m |-> 0, stripeSize |-> 0, size |-> 0,
     sources |-> 0, targets |-> 0, inFlight |-> FALSE, processedStripe |-> 0,
     nStripe |-> 0, waiting |-> 0, dataBuffer |-> <<>>, parityBuffer |-> <<>>,
     allocated |-> 0, inputError |-> NoError]

\* the streams the caller made, before the call
InitArguments(op, k, m, hint, present, want) ==
    /\ ctx = NoContext
    /\ istreams = [i \in (IF op = "encode" THEN {0} ELSE 0 .. (k + m - 1)) |->
                      IF i \in present THEN InStream(<<>>) ELSE NoStream]
    /\ ostreams = [i \in (IF op = "decode" THEN {0} ELSE 0 .. (k + m - 1)) |->
                      IF i \in want THEN OutStream ELSE NoSink]
    /\ disp = NoDispatch
    /\ prim = "idle"
    /\ immediate = <<>>
    /\ hist = NoHistory
    /\ env = [phase |-> "idle", op |-> op, X |-> <<>>, k |-> k, m |-> m,
              hint |-> hint, size |-> 0, kill |-> {}, parts |-> <<>>,
              present |-> present, want |-> want, result |-> 0]

\* (k, m) pairs getECContext refuses, called with every stream present
BadCodes == {<<0, 1>>, <<2, 0>>, <<MAX_K + 1, 1>>, <<2, MAX_M + 1>>}

\* lengths of the arrays handed to repair(2, 1, ...)
ArrayLengths == {2, 3, 4}

\* repair called with arrays of nIn input and nOut output streams
InitLengths(k, m, hint, nIn, nOut) ==
    /\ ctx = NoContext
    /\ istreams = [i \in 0 .. (nIn - 1) |-> InStream(<<>>)]
    /\ ostreams = [i \in 0 .. (nOut - 1) |-> OutStream]
    /\ disp = NoDispatch
    /\ prim = "idle"
    /\ immediate = <<>>
    /\ hist = NoHistory
    /\ env = [phase |-> "idle", op |-> "repair", X |-> <<>>, k |-> k, m |-> m,
              hint |-> hint, size |-> 0, kill |-> {}, parts |-> <<>>,
              present |-> 0 .. (nIn - 1), want |-> 0 .. (nOut - 1),
              result |-> 0]

InitCall ==
    \/ \E code \in BadCodes, op \in {"encode", "decode", "repair"} :
         InitArguments(op, code[1], code[2], 8,
                       IF op = "encode" THEN {0}
                       ELSE 0 .. (code[1] + code[2] - 1),
                       IF op = "decode" THEN {0}
                       ELSE 0 .. (code[1] + code[2] - 1))
    \/ \E nIn \in ArrayLengths, nOut \in ArrayLengths :
         InitLengths(2, 1, 8, nIn, nOut)
    \/ \E code \in CallCodes, hint \in CallHints :
         InitArguments("encode", code[1], code[2], hint, {0},
                       0 .. (code[1] + code[2] - 1))
    \/ \E code \in CallCodes, hint \in CallHints :
         \E present \in SUBSET (0 .. (code[1] + code[2] - 1)) :
           InitArguments("decode", code[1], code[2], hint, present, {0})
    \/ \E code \in CallCodes, hint \in CallHints :
         \E present \in SUBSET (0 .. (code[1] + code[2] - 1)),
            want \in SUBSET (0 .. (code[1] + code[2] - 1)) :
           InitArguments("repair", code[1], code[2], hint, present, want)
    \/ \E k \in GeomParts, m \in GeomParts, hint \in GeomHints :
         InitArguments("safeStripeSize", k, m, hint, {}, {})

\* an assertion failed: the call throws
Throw ==
    /\ env' = [env EXCEPT !.phase = "threw"]
    /\ UNCHANGED <<ctx, istreams, ostreams, disp, prim, immediate, hist>>

CallEncode ==
    /\ env.phase = "idle"
    /\ env.op = "encode"
    /\ IF ~getECContextAsserts(env.k, env.m) THEN Throw
       ELSE /\ Commit(Encode(env.X, env.size, env.k, env.m, env.hint))
            /\ env' = [env EXCEPT !.phase = "encode"]

CallDecode ==
    /\ env.phase = "idle"
    /\ env.op = "decode"
    /\ IF ~getECContextAsserts(env.k, env.m) THEN Throw
       ELSE /\ Commit(Decode(istreams, env.size, env.k, env.m, env.hint))
            /\ env' = [env EXCEPT !.phase = "decode"]

\* the assertions of repair on the lengths of its arrays
repairAsserts(k, m, ist, ost) ==
    /\ k + m = Cardinality(DOMAIN ist)
    /\ k + m = Cardinality(DOMAIN ost)

CallRepair ==
    /\ env.phase = "idle"
    /\ env.op = "repair"
    /\ IF ~repairAsserts(env.k, env.m, istreams, ostreams) THEN Throw
       ELSE IF ~getECContextAsserts(env.k, env.m) THEN Throw
       ELSE /\ Commit(Repair(env.k, env.m, istreams, ostreams, env.size,
                             env.hint))
            /\ env' = [env EXCEPT !.phase = "repair"]

CallSafeStripeSize ==
    /\ env.phase = "idle"
    /\ env.op = "safeStripeSize"
    /\ env' = [env EXCEPT !.phase = "safeStripeSize",
                          !.result = safeStripeSize(env.k, env.m, env.hint)]
    /\ UNCHANGED <<ctx, istreams, ostreams, disp, prim, immediate, hist>>

NextCall ==
    \/ CallEncode
    \/ CallDecode
    \/ CallRepair
    \/ CallSafeStripeSize

SpecCall == InitCall /\ [][NextCall]_vars

----------------------------------------------------------------------------
(* Inputs buffered ahead: every input holds all its bytes and has ended   *)
(* when the operation is called, so each emits 'readable' once and never  *)
(* again of its own.  env.signals are the lanes whose 'readable' is still *)
(* to come.                                                               *)

WakeSizes(k, S) == {k * S, 2 * k * S + 1}

\* an input that was pushed whole, then ended, before it is handed over
Preloaded(s) ==
    IF ~s.present THEN s
    ELSE [s EXCEPT !.pushed = Len(s.data),
                   !.ended = TRUE,
                   !.consumed = IF s.mode = "flowing" THEN Len(s.data) ELSE 0]

InitWake ==
    \E code \in FaultCodes, hint \in Hints,
       op \in {"encode", "decode", "repair"} :
      \E size \in WakeSizes(code[1], safeStripeSize(code[1], code[2], hint)),
         present \in SUBSET (0 .. (code[1] + code[2] - 1)) :
        LET k == code[1]
            m == code[2]
            S == safeStripeSize(k, m, hint)
            X == Object(0, size)
            ist == [i \in 0 .. (k + m - 1) |->
                       IF i \in present
                       THEN InStream(ExpectedPart(X, k, S, i))
                       ELSE NoStream]
            ost == [i \in 0 .. (k + m - 1) |->
                       IF i \in present THEN NoSink ELSE OutStream]
            w == CASE op = "encode" -> Encode(X, size, k, m, hint)
                   [] op = "decode" -> Decode(ist, size, k, m, hint)
                   [] OTHER -> Repair(k, m, ist, ost, size, hint)
        IN /\ IF op = "encode" THEN present = {0}
              ELSE Cardinality(present) >= k
           /\ ctx = w.ctx
           /\ istreams = [i \in DOMAIN w.ist |-> Preloaded(w.ist[i])]
           /\ ostreams = w.ost
           /\ disp = w.disp
           /\ prim = w.prim
           /\ immediate = w.imm
           /\ hist = w.hist
           /\ env = [phase |-> op, X |-> X, k |-> k, m |-> m, hint |-> hint,
                     size |-> size, kill |-> {}, parts |-> <<>>,
                     present |-> present,
                     signals |-> {i \in DOMAIN w.ist :
                                     w.ist[i].present /\ w.ist[i].onReadable}]

\* the one 'readable' input lane i emits of its own
ReadableOnce(i) ==
    /\ i \in env.signals
    /\ Commit(ReadableHandler(World, i))
    /\ env' = [env EXCEPT !.signals = @ \ {i}]

NextWake ==
    \/ \E i \in Lanes : ReadableOnce(i)
    \/ \E i \in Lanes : EndEvent(i)
    \/ PrimDone
    \/ RunImmediate
    \/ \E i \in Lanes : WriteCallback(i)
    \/ \E i \in Lanes : Drain(i)

SpecWake == InitWake /\ [][NextWake]_vars

----------------------------------------------------------------------------
(* A lane that ends short: decode and repair are handed the lanes of an   *)
(* encoded object, one of them cut by a few bytes at its end (a part that *)
(* was stored or fetched incompletely).                                   *)

ShortCuts == {3}

InitShort ==
    \E code \in FaultCodes, hint \in Hints, op \in {"decode", "repair"} :
      \E size \in FaultSizes(code[1], safeStripeSize(code[1], code[2], hint)),
         present \in SUBSET (0 .. (code[1] + code[2] - 1)) :
        \E short \in present, cut \in ShortCuts :
          LET k == code[1]
              m == code[2]
              S == safeStripeSize(k, m, hint)
              X == Object(0, size)
              part(i) == ExpectedPart(X, k, S, i)
              ist == [i \in 0 .. (k + m - 1) |->
                         IF i \notin present THEN NoStream
                         ELSE IF i = short
                         THEN InStream(SubSeq(part(i), 1, Len(part(i)) - cut))
                         ELSE InStream(part(i))]
              ost == [i \in 0 .. (k + m - 1) |->
                         IF i \in present THEN NoSink ELSE OutStream]
              w == IF op = "decode" THEN Decode(ist, size, k, m, hint)
                   ELSE Repair(k, m, ist, ost, size, hint)
          IN /\ Cardinality(present) >= k
             /\ ctx = w.ctx
             /\ istreams = w.ist
             /\ ostreams = w.ost
             /\ disp = w.disp
             /\ prim = w.prim
             /\ immediate = w.imm
             /\ hist = w.hist
             /\ env = [phase |-> op, X |-> X, k |-> k, m |-> m,
                       hint |-> hint, size |-> size, kill |-> {},
                       parts |-> <<>>, present |-> present,
                       short |-> short, cut |-> cut]

NextShort ==
    \/ \E i \in Lanes : Push(i)
    \/ \E i \in Lanes : EndOfInput(i)
    \/ \E i \in Lanes : Readable(i)
    \/ PrimDone
    \/ RunImmediate
    \/ \E i \in Lanes : WriteCallback(i)
    \/ \E i \in Lanes : Drain(i)

SpecShort == InitShort /\ [][NextShort]_vars

----------------------------------------------------------------------------
(* Inputs that hold more than the size says: the operation is called with *)
(* a size, and its input (encode) or its lanes (decode, repair) are those *)
(* of an object that is a few bytes or a stripe longer.                   *)

ExtraSizes(k, S) == {0, k * S + 1}
ExtraBytes(k, S) == {3, k * S}

InitExtra ==
    \E code \in FaultCodes, hint \in Hints,
       op \in {"encode", "decode", "repair"} :
      \E size \in ExtraSizes(code[1], safeStripeSize(code[1], code[2], hint)),
         extra \in ExtraBytes(code[1], safeStripeSize(code[1], code[2], hint)),
         present \in SUBSET (0 .. (code[1] + code[2] - 1)) :
          LET k == code[1]
              m == code[2]
              S == safeStripeSize(k, m, hint)
              Y == Object(0, size + extra)
              ist == [i \in 0 .. (k + m - 1) |->
                         IF i \in present
                         THEN InStream(ExpectedPart(Y, k, S, i))
                         ELSE NoStream]
              ost == [i \in 0 .. (k + m - 1) |->
                         IF i \in present THEN NoSink ELSE OutStream]
              w == CASE op = "encode" -> Encode(Y, size, k, m, hint)
                     [] op = "decode" -> Decode(ist, size, k, m, hint)
                     [] OTHER -> Repair(k, m, ist, ost, size, hint)
          IN /\ IF op = "encode" THEN present = {0}
                ELSE Cardinality(present) >= k
             /\ ctx = w.ctx
             /\ istreams = w.ist
             /\ ostreams = w.ost
             /\ disp = w.disp
             /\ prim = w.prim
             /\ immediate = w.imm
             /\ hist = w.hist
             /\ env = [phase |-> op, X |-> SubSeq(Y, 1, size), k |-> k,
                       m |-> m, hint |-> hint, size |-> size, kill |-> {},
                       parts |-> <<>>, present |-> present,
                       extra |-> extra]

NextExtra ==
    \/ \E i \in Lanes : Push(i)
    \/ \E i \in Lanes : EndOfInput(i)
    \/ \E i \in Lanes : Readable(i)
    \/ \E i \in Lanes : EndEvent(i)
    \/ PrimDone
    \/ RunImmediate
    \/ \E i \in Lanes : WriteCallback(i)
    \/ \E i \in Lanes : Drain(i)

SpecExtra == InitExtra /\ [][NextExtra]_vars

----------------------------------------------------------------------------
(* The cache of coding contexts: _contextCache is a Map of the process,    *)
(* shared by every operation.  env.cache is the Map as its set of          *)
(* <<key, context>> entries, a context being known by the rank of its      *)
(* creation; env.given are the contexts the constructors received.         *)

CacheK == {0, 1, 2, 11, MAX_K + 1}
CacheM == {0, 1, 2, MAX_M + 1}
MaxCreated == 8

\* the decimal digits of n, as String(n) gives them
RECURSIVE Digits(_)
Digits(n) == IF n < 10 THEN <<n>> ELSE Append(Digits(n \div 10), n % 10)

\* the character ',' among the digits 0 .. 9
Comma == 10

\* [k, m].join(',')
CacheKey(k, m) == Digits(k) \o <<Comma>> \o Digits(m)

\* Map.prototype.get: the value under the key, 0 for undefined
MapGet(cache, key) ==
    IF \E e \in cache : e[1] = key
    THEN (CHOOSE e \in cache : e[1] = key)[2]
    ELSE 0

\* Map.prototype.set: the entry under the key is replaced
MapSet(cache, key, value) ==
    {e \in cache : e[1] # key} \cup {<<key, value>>}

\* a plausible slip: a context is created and stored at every call
getECContextNoCache(cache, created, k, m) ==
    [cache |-> MapSet(cache, CacheKey(k, m), created + 1),
     created |-> created + 1,
     context |-> created + 1,
     hit |-> FALSE]

\* getECContext(k, m) once its assertions passed
getECContext(cache, created, k, m) ==
    LET key == CacheKey(k, m)
        context == MapGet(cache, key)
    IN IF context # 0
       THEN [cache |-> cache, created |-> created, context |-> context,
             hit |-> TRUE]
       ELSE [cache |-> MapSet(cache, key, created + 1),
             created |-> created + 1,
             context |-> created + 1,
             hit |-> FALSE]

InitCache ==
    /\ ctx = NoContext
    /\ istreams = <<>>
    /\ ostreams = <<>>
    /\ disp = NoDispatch
    /\ prim = "idle"
    /\ immediate = <<>>
    /\ hist = NoHistory
    /\ env = [phase |-> "idle", cache |-> {}, created |-> 0, given |-> {},
              hit |-> FALSE]

\* new DencodeContext(k, m, ...) in encode, decode or repair, as far as
\* the cache goes
Construct(op, k, m) ==
    /\ env.created < MaxCreated
    /\ IF ~getECContextAsserts(k, m)
       THEN env' = [env EXCEPT !.phase = "threw", !.hit = FALSE]
       ELSE LET r == getECContext(env.cache, env.created, k, m)
            IN env' = [env EXCEPT !.phase = op,
                                  !.cache = r.cache,
                                  !.created = r.created,
                                  !.given = @ \cup {<<k, m, r.context>>},
                                  !.hit = r.hit]
    /\ UNCHANGED <<ctx, istreams, ostreams, disp, prim, immediate, hist>>

NextCache ==
    \E op \in {"encode", "decode", "repair"}, k \in CacheK, m \in CacheM :
        Construct(op, k, m)

SpecCache == InitCache /\ [][NextCache]_vars

----------------------------------------------------------------------------
(* Claims on the round trip *)

IsPrefix(a, b) == Len(a) <= Len(b) /\ a = SubSeq(b, 1, Len(a))

\* what output o received is the object: its bytes in order, no 'error', and
\* 'end' only as the last event, once every byte was written
ReceivesObject(o) ==
    /\ IsPrefix(o.received, env.X)
    /\ \A j \in DOMAIN o.log :
          /\ ~IsError(o.log[j])
          /\ IsEnd(o.log[j]) => j = Len(o.log) /\ o.received = env.X

\* C1: decoding all the k + m outputs of encode(X) writes exactly the bytes
\* of X, in order, then signals end-of-stream
RoundTripNoLoss ==
    (env.phase = "decode" /\ env.kill = {}) => ReceivesObject(ostreams[0])

\* the decode of all lanes of an object ending in a partial stripe is over
RoundTripNoLossDone ==
    /\ env.phase = "decode" /\ env.kill = {}
    /\ env.size % (ctx.k * ctx.stripeSize) # 0
    /\ ctx.nStripe > 1
    /\ ctx.targets = 0
    /\ Finished
    /\ ostreams[0].received = env.X

\* C2: decoding with up to m lanes withheld (data and/or parity) writes
\* exactly the bytes of X
ReconstructionUnderLoss ==
    (env.phase = "decode" /\ env.kill # {}) => ReceivesObject(ostreams[0])

\* a decode that had to rebuild a data lane from a parity lane is over
ReconstructionUnderLossDone ==
    /\ env.phase = "decode"
    /\ Cardinality(env.kill) = env.m
    /\ \E i \in env.kill : i < env.k
    /\ \E i \in env.kill : i >= env.k
    /\ ctx.targets # 0
    /\ Finished
    /\ ostreams[0].received = env.X

\* C10: a decode without error writes k * S bytes per stripe, but for the
\* last stripe, which writes size - (nStripe - 1) * k * S bytes; the bytes
\* written add up to size when end-of-stream is signalled
DecodeOutputLength ==
    (env.phase = "decode" /\ ctx.inputError = NoError) =>
        LET log == ostreams[0].log
            full == ctx.k * ctx.stripeSize
        IN /\ \A j \in DOMAIN log :
                 /\ (IsWrite(log[j]) /\ j < ctx.nStripe) => log[j][2] = full
                 /\ (IsWrite(log[j]) /\ j = ctx.nStripe) =>
                        log[j][2] = ctx.size - (ctx.nStripe - 1) * full
                 /\ IsWrite(log[j]) => j <= ctx.nStripe
                 /\ IsEnd(log[j]) => Len(ostreams[0].received) = ctx.size

\* a decode of two stripes, the last one cut, has signalled end-of-stream
DecodeOutputLengthDone ==
    /\ env.phase = "decode"
    /\ ctx.inputError = NoError
    /\ ctx.nStripe = 2
    /\ Len(ostreams[0].log) = 3
    /\ ostreams[0].log[2][2] < ctx.k * ctx.stripeSize
    /\ IsEnd(ostreams[0].log[3])

\* C3: every output of repair receives the bytes encode wrote to that lane,
\* nStripe * S of them, and a decode from the repaired lanes and other
\* lanes writes the object
RepairThenDecode ==
    /\ env.phase = "repair" =>
          \A i \in DOMAIN ostreams :
             LET o == ostreams[i]
             IN /\ ~o.present => o.log = <<>>
                /\ IsPrefix(o.received, env.parts[i])
                /\ \A j \in DOMAIN o.log :
                      /\ ~IsError(o.log[j])
                      /\ IsEnd(o.log[j]) =>
                            /\ j = Len(o.log)
                            /\ o.received = env.parts[i]
                            /\ Len(o.received) = ctx.nStripe * ctx.stripeSize
    /\ (env.phase = "decode" /\ env.kill # {}) => ReceivesObject(ostreams[0])

\* a decode from m repaired lanes, a data lane among them, and with m other
\* lanes withheld, is over
RepairThenDecodeDone ==
    /\ env.phase = "decode"
    /\ Cardinality(env.kill) = env.m
    /\ \E i \in env.kill : i < env.k
    /\ Cardinality(env.present) = env.k
    /\ ctx.nStripe > 1
    /\ Finished
    /\ ostreams[0].received = env.X

\* C11: encode writes to lane i, stripe after stripe, the S bytes of slot i
\* of the data buffer (i < k) or of slot i - k of the parity buffer; a short
\* last stripe is filled with zeros before the coding library is called, so
\* byte p of the object goes to lane (p mod k*S) div S and every lane gets
\* nStripe * S bytes
EncodeSlicingPadding ==
    env.phase = "encode" =>
        LET S == ctx.stripeSize
        IN /\ \A i \in DOMAIN ostreams :
                LET o == ostreams[i]
                    part == ExpectedPart(env.X, ctx.k, S, i)
                IN /\ IsPrefix(o.received, part)
                   /\ \A j \in DOMAIN o.log :
                         /\ IsWrite(o.log[j]) => o.log[j][2] = S
                         /\ IsEnd(o.log[j]) =>
                               Len(o.received) = ctx.nStripe * S
                   /\ \A p \in 1 .. Len(o.received) :
                         LET n == (p - 1) \div S
                             at == n * ctx.k * S + i * S + ((p - 1) % S) + 1
                         IN (i < ctx.k /\ at <= env.size) =>
                                o.received[p] = env.X[at]
           /\ prim = "running" =>
                \A p \in 1 .. (ctx.k * S) :
                    ctx.dataBuffer[p] =
                        PaddedByte(env.X, ctx.processedStripe * ctx.k * S + p)

\* an encode of two stripes, the last one a byte long, is over
EncodeSlicingPaddingDone ==
    /\ env.phase = "encode"
    /\ ctx.nStripe = 2
    /\ env.size = ctx.k * ctx.stripeSize + 1
    /\ Finished
    /\ \A i \in DOMAIN ostreams :
          Len(ostreams[i].received) = 2 * ctx.stripeSize

----------------------------------------------------------------------------
(* Claims on errors *)

LiveOutputs == {i \in DOMAIN ostreams : ostreams[i].present}

ErrorEvents(o) == {j \in DOMAIN o.log : IsError(o.log[j])}
EndEvents(o) == {j \in DOMAIN o.log : IsEnd(o.log[j])}
WriteEvents(o) == {j \in DOMAIN o.log : IsWrite(o.log[j])}

Insufficient ==
    /\ ctx.op \in {"decode", "repair"}
    /\ Cardinality(env.present) < ctx.k

\* C4: decode or repair over fewer than k present lanes has its error set
\* when the call returns, 'Not enough parts for decoding: <present> < <k>';
\* every live output got it, and no input lane is ever read, paused,
\* resumed or given a listener
InsufficientParts ==
    Insufficient =>
        /\ ctx.inputError = ErrNotEnoughParts(Cardinality(env.present), ctx.k)
        /\ \A i \in LiveOutputs :
              ostreams[i].log = <<EvError(ctx.inputError)>>
        /\ hist.reads = 0
        /\ hist.submitted = 0
        /\ \A i \in DOMAIN istreams :
              /\ istreams[i].mode = "initial"
              /\ istreams[i].consumed = 0
              /\ ~istreams[i].onReadable
              /\ ~istreams[i].onError

\* a decode over one lane out of three, after the lane delivered bytes
InsufficientPartsLater ==
    /\ ctx.op = "decode"
    /\ Cardinality(env.present) = 1
    /\ ctx.k = 2
    /\ \E i \in env.present : istreams[i].pushed > 0 /\ istreams[i].ended

\* C5: whatever errors are reported, every live output gets one 'error'
\* event, all the same one, the first reported; the context keeps it
FirstErrorWins ==
    /\ [](\A i \in LiveOutputs :
            /\ Cardinality(ErrorEvents(ostreams[i])) =
                   (IF ctx.inputError = NoError THEN 0 ELSE 1)
            /\ \A j \in ErrorEvents(ostreams[i]) :
                   ostreams[i].log[j] = EvError(ctx.inputError))
    /\ [][ctx.inputError # NoError => ctx'.inputError = ctx.inputError]_vars

\* three errors were reported to a context with live outputs
FirstErrorWinsThrice ==
    /\ hist.errors >= 3
    /\ LiveOutputs # {}
    /\ ~Insufficient

\* C6: no output gets both an 'error' and an 'end'
ExclusiveTermination ==
    \A i \in LiveOutputs :
        ErrorEvents(ostreams[i]) = {} \/ EndEvents(ostreams[i]) = {}

\* C7: once an error is recorded no stripe is submitted any more
InertAfterError ==
    [][ctx.inputError # NoError => hist'.submitted = hist.submitted]_vars

\* C8: once the input of encode reported an error, encode reads it no more
EncodeHaltsReads ==
    [][(ctx.op = "encode" /\ ctx.inputError # NoError)
            => hist'.reads = hist.reads]_vars

\* C9: no bytes are written to an output after an 'error' was emitted on it
NoDeliveryAfterError ==
    \A i \in LiveOutputs :
        \A j \in ErrorEvents(ostreams[i]), j2 \in WriteEvents(ostreams[i]) :
            j2 < j

----------------------------------------------------------------------------
(* Claims on progress and resources *)

\* every producer delivered its bytes and the end of its stream, no call of
\* the coding library, setImmediate callback, write callback or 'drain' is
\* outstanding, and no listener of an input has anything left to do
Settled ==
    /\ \A i \in DOMAIN istreams :
          istreams[i].present =>
              /\ istreams[i].ended
              /\ istreams[i].pushed = Len(istreams[i].data)
              /\ ReadableHandler(World, i) = World
              /\ (istreams[i].onEnd /\ Buffered(istreams[i]) = 0) =>
                     istreams[i].endEmitted
    /\ prim = "idle"
    /\ immediate = <<>>
    /\ disp.wcb = {}
    /\ disp.drain = {}

\* C12: an operation on an object of size > 0 whose inputs delivered, whose
\* coding library called back and whose outputs completed their writes has
\* got to processedStripe = nStripe and emitted 'end' on every live output
Termination ==
    (env.size > 0 /\ Settled) =>
        (ctx.processedStripe = ctx.nStripe /\ Finished)

\* C13: an operation on an empty object (nStripe = 0) submits no stripe and
\* has emitted 'end' on every live output once its inputs have ended
EmptyObject ==
    env.size = 0 =>
        /\ hist.submitted = 0
        /\ Settled => Finished

\* the pairs of stripe buffers in memory: those of the context and those
\* the writes not yet completed were cut from
Resident == {ctx.allocated} \cup disp.stripes

\* C14: never more than two stripes' worth of stripe buffers are held
BackpressureBound == Cardinality(Resident) <= 2

\* the producers pushed everything and ended, a stripe is written and an
\* output has yet to drain, two more stripes are to come
BackpressureBoundSlow ==
    /\ \A i \in DOMAIN istreams :
          istreams[i].present =>
              istreams[i].ended /\ istreams[i].pushed = Len(istreams[i].data)
    /\ disp.drain # {}
    /\ disp.stripes # {}
    /\ ctx.processedStripe = 0
    /\ ctx.nStripe = 3

----------------------------------------------------------------------------
(* Claims on the roles of the lanes and on the stripe size *)

\* lanes of a set that have fewer than n lanes of the set below them
Lowest(lanes, n) ==
    {i \in lanes : Cardinality({j \in lanes : j < i}) < n}

DataPresent == {i \in env.present : i < env.k}
ParityPresent == {i \in env.present : i >= env.k}

\* C15: decode takes as sources every present data lane and the lowest
\* present parity lanes needed to get to k (none when the k data lanes are
\* present); its targets are the absent data lanes; the context shows these
\* masks with k and m (k = 4, m = 2, data lanes 1, 2 and parity lane 0
\* present: sources = 2 + 4 + 16, targets = 1 + 8)
DecodeRoleSelection ==
    env.phase = "decode" =>
        /\ BitsOf(ctx.sources) =
               DataPresent
                   \cup Lowest(ParityPresent, env.k - Cardinality(DataPresent))
        /\ BitsOf(ctx.targets) = (0 .. (env.k - 1)) \ env.present
        /\ ctx.k = env.k
        /\ ctx.m = env.m
        /\ (env.k = 4 /\ env.m = 2 /\ env.present = {1, 2, 4}) =>
               (ctx.sources = 2 + 4 + 16 /\ ctx.targets = 1 + 8)

\* decode returned for k = 4, m = 2 with two data lanes and both parity
\* lanes present: the two parity lanes are needed
DecodeRoleSelectionParity ==
    /\ env.phase = "decode"
    /\ env.k = 4
    /\ env.present = {0, 3, 4, 5}
    /\ ctx.sources = 1 + 8 + 16 + 32
    /\ ctx.targets = 2 + 4

\* C16 as stated: every context has k bits set in sources, and sources and
\* targets share no lane
RoleBitfields ==
    env.phase \in {"encode", "decode", "repair"} =>
        /\ Cardinality(BitsOf(ctx.sources)) = ctx.k
        /\ BitsOf(ctx.sources) \cap BitsOf(ctx.targets) = {}

\* C16 amended: sources has k bits set when k input lanes or more are
\* present (always in encode) and one bit per present lane otherwise;
\* sources and targets share no lane in encode and decode, and in repair
\* they share the source lanes an output was requested for
RoleBitfieldsPresent ==
    env.phase \in {"encode", "decode", "repair"} =>
        /\ Cardinality(BitsOf(ctx.sources)) =
               IF env.phase = "encode" THEN ctx.k
               ELSE Min(ctx.k, Cardinality(env.present))
        /\ BitsOf(ctx.sources) \cap BitsOf(ctx.targets) =
               IF env.phase = "repair" THEN BitsOf(ctx.sources) \cap env.want
               ELSE {}

\* repair returned for fewer than k present lanes, an output being
\* requested for one of them
RoleBitfieldsOverlap ==
    /\ env.phase = "repair"
    /\ env.k = 4
    /\ Cardinality(env.present) = 3
    /\ BitsOf(ctx.sources) \cap BitsOf(ctx.targets) # {}
    /\ Cardinality(BitsOf(ctx.sources)) = 3

\* C17: repair takes as sources the k lowest present lanes of the k + m,
\* data and parity alike, and as targets the lanes an output was given
\* for; available is the number of sources
RepairRoleSelection ==
    env.phase = "repair" =>
        /\ BitsOf(ctx.sources) = Lowest(env.present, env.k)
        /\ BitsOf(ctx.targets) = env.want
        /\ IF Cardinality(env.present) < env.k
           THEN ctx.inputError =
                    ErrNotEnoughParts(Cardinality(BitsOf(ctx.sources)), env.k)
           ELSE ctx.inputError = NoError

\* repair returned for k = 4, m = 2 with five lanes present, a parity lane
\* among the sources and another left out
RepairRoleSelectionBeyond ==
    /\ env.phase = "repair"
    /\ env.k = 4
    /\ env.present = {0, 2, 3, 4, 5}
    /\ env.want = {1}
    /\ ctx.sources = 1 + 4 + 8 + 16
    /\ ctx.targets = 2

\* C18: in decode and repair the present lanes that are not sources flow
\* (what their producer pushes is consumed at once), the sources never flow
\* -- they are paused when the operation starts -- and are consumed S bytes
\* at a time
UnusedLanesDrained ==
    /\ [](ctx.op \in {"decode", "repair"} =>
            \A i \in DOMAIN istreams :
               istreams[i].present =>
                  IF HasBit(ctx.sources, i)
                  THEN /\ istreams[i].mode # "flowing"
                       /\ ~Insufficient => istreams[i].mode = "paused"
                  ELSE /\ istreams[i].mode = "flowing"
                       /\ Buffered(istreams[i]) = 0)
    /\ [][ctx.op \in {"decode", "repair"} =>
            \A i \in DOMAIN istreams :
               (istreams[i].present /\ HasBit(ctx.sources, i)) =>
                  istreams'[i].consumed \in
                      {istreams[i].consumed,
                       istreams[i].consumed + ctx.stripeSize}]_vars

\* a decode over the three lanes of a (2, 1) object: the parity lane was
\* pushed and dropped while a stripe was read from the data lanes
UnusedLanesDrainedParity ==
    /\ ctx.op = "decode"
    /\ env.present = {0, 1, 2}
    /\ istreams[2].mode = "flowing"
    /\ istreams[2].pushed > 0
    /\ istreams[2].consumed = istreams[2].pushed
    /\ istreams[0].mode = "paused"
    /\ istreams[0].consumed = ctx.stripeSize
    /\ istreams[1].consumed = ctx.stripeSize

\* the hint, up to the next multiple of 8
AlignedUp(hint) == hint + ((8 - (hint % 8)) % 8)
\* the largest multiple of 8 with max(k, m) times it within MAX_HWM
Ceiling(k, m) ==
    LET most == MAX_HWM \div Max(k, m) IN most - (most % 8)

\* C19: safeStripeSize(k, m, hint) is the least of the hint taken up to a
\* multiple of 8 and of the ceiling; it is a multiple of 8, max(k, m) times
\* it is within 0x800000, it is the hint when the hint is a multiple of 8
\* within the ceiling; encode, decode and repair use it
StripeGeometry ==
    /\ env.phase = "safeStripeSize" =>
          /\ env.result = Min(AlignedUp(env.hint), Ceiling(env.k, env.m))
          /\ (env.result % 8) = 0
          /\ Max(env.k, env.m) * env.result <= 8388608
          /\ ((env.hint % 8) = 0 /\ Max(env.k, env.m) * env.hint <= 8388608) =>
                 env.result = env.hint
    /\ env.phase \in {"encode", "decode", "repair"} =>
          ctx.stripeSize = Min(AlignedUp(env.hint), Ceiling(env.k, env.m))

\* safeStripeSize(2, 3, 4194304) returned the ceiling, 2796200
StripeGeometryCeiling ==
    /\ env.phase = "safeStripeSize"
    /\ env.k = 2
    /\ env.m = 3
    /\ env.hint = 4194304
    /\ env.result = 2796200

\* C20: encode, decode or repair called with valid k and m and a hint that
\* is not a multiple of 8 throws an assertion error, no stream being touched
StripeSizePrecondition ==
    (/\ env.op \in {"encode", "decode", "repair"}
     /\ env.phase # "idle"
     /\ getECContextAsserts(env.k, env.m)
     /\ (env.hint % 8) # 0) =>
        /\ env.phase = "threw"
        /\ ctx = NoContext
        /\ \A i \in DOMAIN istreams : istreams[i].mode = "initial"
        /\ \A i \in DOMAIN ostreams : ostreams[i].log = <<>>

\* the streams as the caller made them: not paused, resumed or read, not
\* given a listener, not sent 'error' or 'end'
Untouched ==
    /\ \A i \in DOMAIN istreams :
          /\ istreams[i].mode = "initial"
          /\ istreams[i].consumed = 0
          /\ ~istreams[i].onReadable
          /\ ~istreams[i].onEnd
          /\ ~istreams[i].onError
    /\ \A i \in DOMAIN ostreams : ostreams[i].log = <<>>

\* C21: encode, decode and repair with k = 0, m = 0, k above MAX_K or m
\* above MAX_M, and repair with an array whose length is not k + m, throw
\* an assertion error with every stream untouched
CodePreconditions ==
    (/\ env.op \in {"encode", "decode", "repair"}
     /\ env.phase # "idle"
     /\ \/ env.k = 0
        \/ env.m = 0
        \/ env.k > 24
        \/ env.m > 6
        \/ env.op = "repair" /\ Cardinality(DOMAIN istreams) # env.k + env.m
        \/ env.op = "repair" /\ Cardinality(DOMAIN ostreams) # env.k + env.m)
    => (env.phase = "threw" /\ ctx = NoContext /\ Untouched)

\* decode with two data streams and no parity stream threw
CodePreconditionsNoParity ==
    /\ env.phase = "threw"
    /\ env.op = "decode"
    /\ env.k = 2
    /\ env.m = 0
    /\ Untouched

----------------------------------------------------------------------------
(* Claims on the stripe in flight *)

\* calls of the coding library and deferred dispatches not yet called back
Outstanding ==
    (IF prim = "running" THEN 1 ELSE 0)
        + Cardinality({j \in DOMAIN immediate : immediate[j][1] = "dispatch"})

\* C23: at most one call of the coding library (or deferred dispatch) is
\* outstanding; a stripe is submitted only with inFlight clear, and inFlight
\* stays set from the submission to the report of the stripe (unref)
OneInFlight ==
    /\ [](/\ Outstanding <= 1
          /\ Outstanding = 1 => ctx.inFlight
          /\ hist.submitted - hist.unrefs = (IF ctx.inFlight THEN 1 ELSE 0))
    /\ [][hist'.submitted # hist.submitted =>
            /\ hist'.submitted = hist.submitted + 1
            /\ ~ctx.inFlight \/ hist'.unrefs = hist.unrefs + 1
            /\ ctx'.inFlight]_vars
    /\ [][(ctx.inFlight /\ ~ctx'.inFlight) =>
            hist'.unrefs = hist.unrefs + 1]_vars

\* the second stripe of a decode that has nothing to compute is deferred
OneInFlightDeferred ==
    /\ ctx.op = "decode"
    /\ ctx.targets = 0
    /\ ctx.inFlight
    /\ Outstanding = 1
    /\ prim = "idle"
    /\ hist.submitted = 2

\* C24: while a stripe is in flight a 'readable' or 'end' of an input
\* consumes nothing from a paused input and changes neither waiting nor
\* the stripe buffers
NoReadsInFlight ==
    [][(ctx.inFlight /\ hist'.unrefs = hist.unrefs) =>
          /\ \A i \in DOMAIN istreams :
                istreams[i].mode = "paused" =>
                    istreams'[i].consumed = istreams[i].consumed
          /\ ctx'.waiting = ctx.waiting
          /\ prim' = prim =>
                /\ ctx'.dataBuffer = ctx.dataBuffer
                /\ ctx'.parityBuffer = ctx.parityBuffer]_vars

\* the coding library is at work on the first stripe of an encode whose
\* input already holds the second stripe
NoReadsInFlightBuffered ==
    /\ ctx.op = "encode"
    /\ ctx.inFlight
    /\ prim = "running"
    /\ ctx.processedStripe = 0
    /\ Buffered(istreams[0]) > 0
    /\ istreams[0].ended

----------------------------------------------------------------------------
(* Claims on scheduling *)

\* what output lane i is to receive: the object from decode, part i of the
\* encoded object from encode and repair
ExpectedOutput(i) ==
    IF ctx.op = "decode" THEN env.X
    ELSE ExpectedPart(env.X, ctx.k, ctx.stripeSize, i)

\* C22: whatever the order in which the producers push and end, the inputs
\* become readable, the coding library calls back and the writes complete,
\* every live output receives a prefix of the same bytes without 'error',
\* 'end' comes last after all of them, and once nothing is pending the
\* outcome is the one the arguments determine
TimingIndependence ==
    /\ \A i \in LiveOutputs :
          LET o == ostreams[i]
          IN /\ IsPrefix(o.received, ExpectedOutput(i))
             /\ ErrorEvents(o) = {}
             /\ \A j \in EndEvents(o) :
                   j = Len(o.log) /\ o.received = ExpectedOutput(i)
    /\ ctx.inputError = NoError
    /\ Settled =>
          /\ ctx.processedStripe =
                (IF ctx.op = "repair" /\ ctx.targets = 0 THEN 0
                 ELSE ctx.nStripe)
          /\ \A i \in LiveOutputs :
                /\ ostreams[i].received = ExpectedOutput(i)
                /\ Cardinality(EndEvents(ostreams[i])) =
                      (IF env.size = 0 THEN 0 ELSE 1)

\* a decode that rebuilt a missing data lane is over, its last 'drain'
\* having come after every input ended
TimingIndependenceSettled ==
    /\ Settled
    /\ ctx.op = "decode"
    /\ ctx.targets # 0
    /\ env.size > 0
    /\ ostreams[0].received = env.X
    /\ Finished

\* C25: the completion of a coded stripe is reported once, when every
\* write of the stripe called back and every lane that was full drained,
\* and the buffers of the next stripe are allocated then: a stripe in
\* flight has a call, a write callback, a 'drain' or its deferred report to
\* wait for, a stripe reported has none, and one pair of buffers is allocated per report that
\* is not the last
PendingWrites ==
    /\ hist.submitted - hist.unrefs \in {0, 1}
    /\ ctx.inFlight =>
          \/ Outstanding = 1
          \/ disp.wcb # {}
          \/ disp.drain # {}
          \/ \E j \in DOMAIN immediate : immediate[j][1] = "unref"
    /\ ~ctx.inFlight => disp.wcb = {} /\ disp.drain = {}
    /\ ctx.allocated =
          (IF ctx.nStripe > 0 /\ hist.unrefs = ctx.nStripe THEN hist.unrefs
           ELSE hist.unrefs + 1)

\* C26: 'end' is emitted at most once on a live output, at
\* processedStripe = nStripe, with no stripe in flight and no write or
\* 'drain' of the last stripe pending
EndOnce ==
    \A i \in LiveOutputs :
        /\ Cardinality(EndEvents(ostreams[i])) <= 1
        /\ EndEvents(ostreams[i]) # {} =>
              /\ ctx.processedStripe = ctx.nStripe
              /\ ~ctx.inFlight
              /\ Outstanding = 0
              /\ disp.wcb = {}
              /\ disp.drain = {}

\* a repair wrote two stripes to the lane it rebuilds and ended it
EndOnceRepaired ==
    /\ ctx.op = "repair"
    /\ ctx.nStripe = 2
    /\ \E i \in LiveOutputs :
          /\ Cardinality(WriteEvents(ostreams[i])) = 2
          /\ Cardinality(EndEvents(ostreams[i])) = 1
          /\ ErrorEvents(ostreams[i]) = {}

\* nothing is left to run: no 'readable' or 'end' of an input, no call of
\* the coding library, no setImmediate callback, no write callback, no
\* 'drain'
Quiet ==
    /\ env.signals = {}
    /\ \A i \in DOMAIN istreams : ~ENABLED EndEvent(i)
    /\ prim = "idle"
    /\ immediate = <<>>
    /\ disp.wcb = {}
    /\ disp.drain = {}

\* C27: with inputs that hold all their bytes and emit 'readable' once, the
\* report of a stripe that is not the last submits the next one in the same
\* step (the wake makes the lanes read again), and when nothing is left to
\* run and no stripe is in flight every stripe was processed and every live
\* output ended
WakeProgress ==
    /\ []((Quiet /\ ~ctx.inFlight) =>
             (ctx.processedStripe = ctx.nStripe /\ Finished))
    /\ [][(hist'.unrefs # hist.unrefs
             /\ ctx'.processedStripe < ctx'.nStripe) =>
            (ctx'.inFlight /\ hist'.submitted = hist.submitted + 1)]_vars

\* an input pushed in one piece of three stripes was encoded to the end
WakeProgressEncoded ==
    /\ ctx.op = "encode"
    /\ Quiet
    /\ ctx.nStripe = 3
    /\ ctx.processedStripe = 3
    /\ Finished
    /\ \A i \in LiveOutputs : ostreams[i].received = ExpectedOutput(i)

\* C28: an output lane receives its bytes in offset order; while a stripe
\* is with the coding library (or deferred) no write callback or 'drain' of
\* the stripe before is pending, and a lane was written once per stripe
\* reported, plus once for the stripe in flight after its dispatch
PerLaneOrdering ==
    /\ \A i \in LiveOutputs :
          /\ IsPrefix(ostreams[i].received, ExpectedOutput(i))
          /\ Cardinality(WriteEvents(ostreams[i])) =
                hist.unrefs
                  + (IF ctx.inFlight /\ Outstanding = 0 THEN 1 ELSE 0)
    /\ Outstanding = 1 => disp.wcb = {} /\ disp.drain = {}
    /\ disp.stripes \subseteq {ctx.allocated}

\* the second stripe of an encode is with the coding library, every lane
\* having received the first
PerLaneOrderingSecond ==
    /\ ctx.op = "encode"
    /\ prim = "running"
    /\ hist.submitted = 2
    /\ \A i \in LiveOutputs :
          ostreams[i].received =
              SubSeq(ExpectedOutput(i), 1, ctx.stripeSize)

----------------------------------------------------------------------------
(* Claims on the lanes of decode and repair *)

\* lane i is filled for the stripe being gathered, or that stripe is in
\* flight
FilledOrInFlight(i) ==
    /\ ctx.processedStripe < ctx.nStripe
    /\ ~HasBit(ctx.waiting, i) \/ ctx.inFlight

\* C29: in decode and repair a source lane has been read for exactly
\* processedStripe slices of S bytes, plus one when it is filled for the
\* current stripe or the stripe is in flight; its slice lies at i * S of
\* the data buffer or (i - k) * S of the parity buffer; a lane that is not
\* a source has no listener and is never read
ByteAlignment ==
    ctx.op \in {"decode", "repair"} =>
        \A i \in DOMAIN istreams :
            LET s == istreams[i]
                S == ctx.stripeSize
                n == ctx.processedStripe
                buffer == IF i < ctx.k THEN ctx.dataBuffer
                          ELSE ctx.parityBuffer
                offset == IF i < ctx.k THEN i * S ELSE (i - ctx.k) * S
            IN IF HasBit(ctx.sources, i)
               THEN /\ s.present
                    /\ s.consumed =
                          S * (n + (IF FilledOrInFlight(i) THEN 1 ELSE 0))
                    /\ (FilledOrInFlight(i) /\ ~ctx.inFlight) =>
                          Slice(buffer, offset, offset + S) =
                              SubSeq(s.data, n * S + 1, (n + 1) * S)
               ELSE ~s.onReadable

\* C30: in decode and repair a source lane counts as filled for the
\* current stripe, and the stripe is submitted, only when S bytes of the
\* stripe were read from the lane
ExactSizeReads ==
    ctx.op \in {"decode", "repair"} =>
        \A i \in DOMAIN istreams :
            (HasBit(ctx.sources, i)
                /\ ctx.processedStripe < ctx.nStripe
                /\ ~HasBit(ctx.waiting, i)) =>
                    istreams[i].consumed >=
                        (ctx.processedStripe + 1) * ctx.stripeSize

----------------------------------------------------------------------------
(* Claims on repair, failures and the counters *)

\* C31: repair writes to the lanes with a requested output only, one slice
\* of S bytes per coded stripe, slice i of the data buffer or i - k of the
\* parity buffer (the bytes of part i), the last stripe whole: a requested
\* output has nStripe * S bytes when it ends
RepairOutputShape ==
    ctx.op = "repair" =>
        \A i \in DOMAIN ostreams :
            LET o == ostreams[i]
            IN IF ostreams[i].present
               THEN /\ HasBit(ctx.targets, i)
                    /\ \A j \in WriteEvents(o) :
                          o.log[j] = EvWrite(ctx.stripeSize)
                    /\ Len(o.received) =
                          ctx.stripeSize * Cardinality(WriteEvents(o))
                    /\ IsPrefix(o.received,
                                ExpectedPart(env.X, ctx.k, ctx.stripeSize, i))
                    /\ EndEvents(o) # {} =>
                          Len(o.received) = ctx.nStripe * ctx.stripeSize
               ELSE /\ ~HasBit(ctx.targets, i)
                    /\ o.received = <<>>
                    /\ o.log = <<>>

\* a repair of a 33-byte object rebuilt data lane 0 whole: 24 bytes, the
\* last 8 for a stripe that holds one byte of the object
RepairOutputShapeWhole ==
    /\ ctx.op = "repair"
    /\ env.size = 33
    /\ ostreams[0].present
    /\ ~ostreams[1].present
    /\ EndEvents(ostreams[0]) # {}
    /\ Len(ostreams[0].received) = 24

\* C32: a stripe for which the coding library reported an error is never
\* reported complete: the stripes reported are among those submitted and
\* not failed, and after a failure no output is ended
PrimitiveFailureStops ==
    /\ hist.unrefs + hist.failed <= hist.submitted
    /\ hist.failed > 0 =>
          \A i \in LiveOutputs : EndEvents(ostreams[i]) = {}

\* the deferred dispatch is the setImmediate callback to run next
DispatchNext == immediate # <<>> /\ Head(immediate)[1] = "dispatch"

\* C33: with targets = 0 the submission of a stripe completes nothing: it
\* leaves a deferred dispatch queued, inFlight set, the outputs as they
\* were; inFlight stays set while the dispatch is queued; and when it runs
\* every lane to write gets its slice and a write callback to wait for, as
\* after a call of the coding library
DeferredNoOp ==
    /\ []((\E j \in DOMAIN immediate : immediate[j][1] = "dispatch") =>
             (ctx.targets = 0 /\ ctx.inFlight /\ prim = "idle"))
    /\ [][(hist'.submitted # hist.submitted /\ ctx.targets = 0) =>
            /\ immediate' # <<>>
            /\ immediate'[Len(immediate')][1] = "dispatch"
            /\ ctx'.inFlight
            /\ ctx'.processedStripe + 1 = hist'.submitted
            /\ \A i \in DOMAIN ostreams :
                  ostreams'[i].received = ostreams[i].received]_vars
    /\ [][(DispatchNext /\ immediate' # immediate) =>
            /\ disp'.wcb = WriteLanes
            /\ ctx'.inFlight
            /\ hist'.unrefs = hist.unrefs
            /\ \A i \in WriteLanes :
                  Len(ostreams'[i].log) = Len(ostreams[i].log) + 1
                     /\ IsWrite(ostreams'[i].log[Len(ostreams'[i].log)])]_vars

\* the deferred dispatch of a decode that had every data lane has run: the
\* stripe is written, in flight, and waits for its write callback
DeferredNoOpWritten ==
    /\ ctx.op = "decode"
    /\ ctx.targets = 0
    /\ ctx.inFlight
    /\ immediate = <<>>
    /\ prim = "idle"
    /\ disp.wcb = {0}
    /\ hist.submitted = 1

\* C34: no assertion of ref(), of DencodeContext.encode or of the lane
\* fill fails, and every step that submits a stripe ends with waiting = 0
\* and starts with no stripe in flight or reports the stripe that was
SubmissionPreconditions ==
    /\ [](~hist.assertFailed)
    /\ [][hist'.submitted # hist.submitted =>
            /\ ctx'.waiting = 0
            /\ ctx'.inFlight
            /\ ~ctx.inFlight \/ hist'.unrefs = hist.unrefs + 1]_vars

\* the report of the first stripe of a repair woke both of its source
\* lanes, which filled and submitted the second stripe
SubmissionPreconditionsWoken ==
    /\ ctx.op = "repair"
    /\ ctx.targets # 0
    /\ hist.unrefs = 1
    /\ hist.submitted = 2
    /\ ctx.waiting = 0
    /\ prim = "running"
    /\ ~hist.assertFailed
    /\ ctx.inputError = NoError

\* C35: a repair over at least k present lanes whose inputs delivered
\* everything and which has no callback left to run has had every
\* submitted stripe reported once and is at processedStripe = nStripe,
\* whatever the set of requested outputs
RepairCompletes ==
    (ctx.op = "repair" /\ Cardinality(env.present) >= ctx.k /\ Settled) =>
        /\ hist.unrefs = hist.submitted
        /\ ~ctx.inFlight
        /\ ctx.processedStripe = ctx.nStripe

\* C36: processedStripe counts the stripes reported, one per stripe
\* submitted, and stays within 0 .. nStripe; nothing is submitted, and so
\* nothing is in flight, once processedStripe = nStripe
StripeCounterBound ==
    /\ ctx.processedStripe >= 0
    /\ ctx.processedStripe <= ctx.nStripe
    /\ ctx.processedStripe = hist.unrefs
    /\ hist.submitted - hist.unrefs \in {0, 1}
    /\ ctx.processedStripe = ctx.nStripe =>
          (~ctx.inFlight /\ hist.submitted = ctx.nStripe)

\* C37: waiting is a subset of sources; it is reset with each allocation
\* of stripe buffers and then only loses bits, and the stripe is submitted
\* when the last bit goes: waiting is 0 exactly when the stripe of the
\* buffers last allocated has been submitted, so no more stripes are
\* submitted than buffers were allocated
WaitingDiscipline ==
    /\ BitsOf(ctx.waiting) \subseteq BitsOf(ctx.sources)
    /\ ctx.inFlight => ctx.waiting = 0
    /\ hist.submitted <= ctx.allocated
    /\ ctx.sources # 0 =>
          (ctx.waiting = 0 <=> hist.submitted = ctx.allocated)

----------------------------------------------------------------------------
(* Claims on the cache of coding contexts *)

\* C38: the cache holds one context per (k, m), for valid (k, m) only and
\* as many as were created; every constructor called with the same (k, m)
\* received the same context; an entry, once in the cache, stays as it is
ContextCache ==
    /\ [](/\ \A e1, e2 \in env.cache : e1[1] = e2[1] => e1 = e2
          /\ \A e \in env.cache :
                \E k \in CacheK, m \in CacheM :
                    getECContextAsserts(k, m) /\ e[1] = CacheKey(k, m)
          /\ Cardinality(env.cache) = env.created
          /\ \A g1, g2 \in env.given :
                (g1[1] = g2[1] /\ g1[2] = g2[2]) => g1[3] = g2[3]
          /\ \A g \in env.given : <<CacheKey(g[1], g[2]), g[3]>> \in env.cache)
    /\ [][env.cache \subseteq env'.cache]_vars
    /\ [][env'.phase = "threw" => env'.cache = env.cache]_vars

\* with the contexts of (1, 2) and (11, 2) in the cache, a repair with
\* (11, 2) was handed the one it holds
ContextCacheHit ==
    /\ env.hit
    /\ env.phase = "repair"
    /\ <<11, 2, 2>> \in env.given
    /\ <<1, 2, 1>> \in env.given
    /\ Cardinality(env.cache) = 2

====
